---------------------------- MODULE Spec2Model ----------------------------
(***************************************************************************)
(* dawft - Da Watch Face Tool.  A model of the pixel conversions, the      *)
(* RLE_LINE encoder (compressImg), the bitmap dumper (dumpBMP16), the      *)
(* bitmap importer (newImgFromFile), the file type detector                *)
(* (autodetectFileType), the info/dump run of main and createBin.          *)
(*                                                                         *)
(* Bytes are naturals 0..255, byte buffers are sequences of bytes (C index *)
(* i is TLA+ index i+1).  Each sub-system has its own specification over   *)
(* the variables it uses; the variables of the other sub-systems stay at   *)
(* their idle value.                                                       *)
(***************************************************************************)
EXTENDS Integers, Naturals, Sequences, FiniteSets, TLC

VARIABLES
    pixel,      \* SpecPix: the stored 16-bit pixel handed to RGB565to888
    rgb,        \* SpecPix: the RGBTrip it returned (or NoTrip)
    pix565,     \* SpecPix: what RGBTripTo565 made of rgb (-1: not called yet)
    img,        \* SpecRLE: the Img handed to compressImg (NullImg for NULL)
    orig,       \* SpecRLE: the Img as it was constructed
    ret,        \* SpecRLE: return value of the last compressImg call (-1: none yet)
    calls,      \* SpecRLE: number of compressImg calls made on img
    rleBuf,     \* SpecRLE: compressImg's local buf[0..offset) when it left the row loop
    dump,       \* SpecRLE: what dumpBMP16 did with img->data (NoDump: not called)
    bmpFile,    \* SpecImport: the bitmap file newImgFromFile is given
    backgroundImg, \* SpecImport: the Img to blend against, or NullImg
    bp,         \* SpecImport: <<bpx, bpy>>, position of the bitmap on the background
    imported,   \* SpecImport: what newImgFromFile returned (NotImported: not called)
    detFile,    \* SpecDetect: the buffer autodetectFileType is given
    detected,   \* SpecDetect: the fileType it returned ("": not called)
    args,       \* SpecTool: mode, raw and fileType of the command line
    inFile,     \* SpecTool: the binary file named on the command line
    pc,         \* SpecTool: where main is
    fileType,   \* SpecTool: main's fileType (0: not yet known)
    maxRead,    \* SpecTool: highest index of fileData a header read has used
    hdr,        \* SpecTool: main's FaceHeader, with xfi and blobEstSize
    manifest,   \* SpecTool: watchFaceStr, a sequence of lines
    blobIdx,    \* SpecTool: i of the loop over the blobs
    folder,     \* SpecTool: the files of the dump folder
    visited,    \* SpecTool: what the loop did, blob by blob
    probe,      \* SpecTool: what the last pass of the dump loop read and called
    exitCode,   \* SpecTool: what main returned (-1: still running)
    created     \* SpecTool: what createBin made of the folder afterwards

vars == <<pixel, rgb, pix565, img, orig, ret, calls, rleBuf, dump,
          bmpFile, backgroundImg, bp, imported, detFile, detected,
          args, inFile, pc, fileType, maxRead, hdr, manifest, blobIdx,
          folder, visited, probe, exitCode, created>>

pixVars == <<pixel, rgb, pix565>>
rleVars == <<img, orig, ret, calls, rleBuf, dump>>
impVars == <<bmpFile, backgroundImg, bp, imported>>
detVars == <<detFile, detected>>
toolVars == <<args, inFile, pc, fileType, maxRead, hdr, manifest, blobIdx,
              folder, visited, probe, exitCode, created>>

\* Values of the variables of a part of the program that is not running.
NoTrip == [r |-> -1, g |-> -1, b |-> -1]
NullImg == [null |-> TRUE]
NoDump == [called |-> FALSE]
NoFile == [readable |-> FALSE]
NotImported == [called |-> FALSE]
NoBuffer == [size |-> 0]
NoBin == [readable |-> FALSE]
NoHeader == [parsed |-> FALSE]
NoFolder == [txt |-> <<>>, bmp |-> <<>>, raw |-> <<>>]
NotCreated == [called |-> FALSE]
NoProbe == [called |-> FALSE]

IdlePix == pixel = 0 /\ rgb = NoTrip /\ pix565 = -1
IdleRLE == img = NullImg /\ orig = NullImg /\ ret = -1 /\ calls = 0
           /\ rleBuf = <<>> /\ dump = NoDump
IdleImport == bmpFile = NoFile /\ backgroundImg = NullImg /\ bp = <<0, 0>>
              /\ imported = NotImported
IdleDetect == detFile = NoBuffer /\ detected = ""
IdleTool == /\ args = [mode |-> "HELP", raw |-> FALSE, fileType |-> ""]
            /\ inFile = NoBin /\ pc = "exit" /\ fileType = "" /\ maxRead = -1
            /\ hdr = NoHeader /\ manifest = <<>> /\ blobIdx = 0
            /\ folder = NoFolder /\ visited = <<>> /\ probe = NoProbe /\ exitCode = 0
            /\ created = NotCreated

----------------------------------------------------------------------------
(* Machine integers and bit operations                                     *)

RECURSIVE BitAnd(_, _)
BitAnd(a, b) ==
    IF a = 0 \/ b = 0 THEN 0
    ELSE (a % 2) * (b % 2) + 2 * BitAnd(a \div 2, b \div 2)

RECURSIVE BitOr(_, _)
BitOr(a, b) ==
    IF a = 0 THEN b
    ELSE IF b = 0 THEN a
    ELSE (IF (a % 2) + (b % 2) > 0 THEN 1 ELSE 0) + 2 * BitOr(a \div 2, b \div 2)

Shl(a, n) == a * (2 ^ n)
Shr(a, n) == a \div (2 ^ n)

U8(x)  == x % 256
U16(x) == x % 65536

\* A sequence of n copies of v.
Rep(v, n) == [i \in 1..n |-> v]

\* s[from..to] in C indices (0-based, to exclusive).
Slice(s, from, to) == [i \in 1..(to - from) |-> s[from + i]]

\* x & m and x | y are computed bit by bit (BitAnd, BitOr) in the pixel
\* conversions.  The byte macros, which run once per pixel of every image,
\* use the arithmetic form of the same masks and shifts:
\*   input & 0xFF = input % 256,  (input & 0xFF00) >> 8 = (input \div 256) % 256,
\*   and a | b = a + b where a and b have no bit in common.
swap_bo_u16(input) == U16((input % 256) * 256) + ((input \div 256) % 256)

\* get_u16(&p[i]): little-endian u16 at C index i of p.
get_u16(p, i) == U16(p[i + 1] + p[i + 2] * 256)

\* set_u16: the two bytes v is stored as.
set_u16(v) == <<v % 256, v \div 256>>

----------------------------------------------------------------------------
(* Pixel conversions (bmp.c)                                               *)

RGB565to888_NoSwap(pix) ==
    LET p == pix
    IN  [ b |-> BitOr(U8(Shl(BitAnd(p, 31), 3)), Shr(BitAnd(p, 28), 3)),
          g |-> BitOr(Shr(BitAnd(p, 2016), 3), Shr(BitAnd(p, 1536), 9)),
          r |-> BitOr(Shr(BitAnd(p, 63488), 8), Shr(BitAnd(p, 57344), 13)) ]

RGB565to888(pix) ==
    LET p == swap_bo_u16(pix)
    IN  [ b |-> BitOr(U8(Shl(BitAnd(p, 31), 3)), Shr(BitAnd(p, 28), 3)),
          g |-> BitOr(Shr(BitAnd(p, 2016), 3), Shr(BitAnd(p, 1536), 9)),
          r |-> BitOr(Shr(BitAnd(p, 63488), 8), Shr(BitAnd(p, 57344), 13)) ]

\* The three truncating conversions share one body in the source.
Pack565(r, g, b) ==
    BitOr(BitOr(Shr(BitAnd(b, 248), 3), Shl(BitAnd(g, 252), 3)), Shl(BitAnd(r, 248), 8))

RGB888to565(buf) == Pack565(buf[3], buf[2], buf[1])

RGBTripTo565_NoMask(t) == U16(t.b \div 8 + t.g * 8 + t.r * 256)
RGBTripTo565(t) == Pack565(t.r, t.g, t.b)

ARGB8888to565(buf) == Pack565(buf[3], buf[2], buf[1])

----------------------------------------------------------------------------
(* Img and compressImg (bmp.c, bmp.h)                                      *)

NONE      == 0
RLE_LINE  == 1
RLE_BASIC == 2
TRY_RLE   == 7

\* The longest run one record holds: runLength is flushed when it reaches it.
MaxRunAlt == 255 + 1
MaxRun == 255

\* Largest offset a u16 row table entry holds.
MaxOffset == 65535

\* An uncompressed Img as newImgFromFile builds it.
NewImg(w, h, data) ==
    [null |-> FALSE, w |-> w, h |-> h, compression |-> NONE,
     size |-> w * h * 2, data |-> data]

Record_Swapped(prev, runLength) == <<prev[2], prev[1], runLength>>
Record(prev, runLength) == <<prev[1], prev[2], runLength>>

\* Pixel x of row y of img->data: curr[0], curr[1].
Curr(data, w, y, x) ==
    LET at(k) == IF k <= Len(data) THEN data[k] ELSE 0
    IN  <<at(y * w * 2 + x * 2 + 1), at(y * w * 2 + x * 2 + 2)>>

\* One pass of the inner loop of compressImg, at column x.  st holds the
\* loop's locals: prev, runLength and the records written to buf so far.
EncodeStep(data, w, y, x, st) ==
    LET curr == Curr(data, w, y, x) IN
    IF x = 0 THEN
        [prev |-> curr, runLength |-> 1, out |-> st.out]
    ELSE IF curr # st.prev THEN
        [prev |-> curr, runLength |-> 1,
         out |-> st.out \o Record(st.prev, st.runLength)]
    ELSE IF U8(st.runLength + 1) = MaxRun THEN
        [prev |-> st.prev, runLength |-> 0,
         out |-> st.out \o Record(st.prev, U8(st.runLength + 1))]
    ELSE
        [prev |-> st.prev, runLength |-> U8(st.runLength + 1), out |-> st.out]

\* The passes for columns lo..hi-1 in order (split in halves to keep the
\* evaluation shallow).
RECURSIVE EncodeSpan(_, _, _, _, _, _)
EncodeSpan(data, w, y, lo, hi, st) ==
    IF hi <= lo THEN st
    ELSE IF hi = lo + 1 THEN EncodeStep(data, w, y, lo, st)
    ELSE LET mid  == (lo + hi) \div 2
             left == EncodeSpan(data, w, y, lo, mid, st)
         IN  \* the test makes TLC evaluate the first half before the second
             IF left.runLength >= 0 THEN EncodeSpan(data, w, y, mid, hi, left) ELSE left

\* if(runLength > 0): the run in hand when the inner loop ends is saved.
Flush(st) ==
    IF st.runLength > 0 THEN st.out \o Record(st.prev, st.runLength) ELSE st.out

\* The records row y adds to buf: the inner loop and the flush after it.
EncodeRow(data, w, y) ==
    Flush(EncodeSpan(data, w, y, 0, w,
                     [prev |-> <<0, 0>>, runLength |-> 0, out |-> <<>>]))

\* The row loop of compressImg from row y on.  table holds the row end
\* offsets stored so far, recs the run data; over is TRUE when a row end
\* offset above 65535 made the function give up.
RECURSIVE EncodeRows(_, _, _, _, _, _, _)
RECURSIVE RowEncoded(_, _, _, _, _, _, _, _)
EncodeRows(data, w, h, y, offset, table, recs) ==
    IF y >= h THEN [over |-> FALSE, offset |-> offset, table |-> table, recs |-> recs]
    ELSE RowEncoded(data, w, h, y, offset, table, recs, EncodeRow(data, w, y))

\* The end of one pass of the row loop, row holding the records of row y.
RowEncoded(data, w, h, y, offset, table, recs, row) ==
    IF offset + Len(row) > MaxOffset
    THEN [over |-> TRUE, offset |-> offset + Len(row), table |-> table,
          recs |-> recs \o row]
    ELSE EncodeRows(data, w, h, y + 1, offset + Len(row),
                    table \o set_u16(U16(offset + Len(row))), recs \o row)

\* The test compressImg opens with: not a raw image.
NotRaw_NullOnly(i) == i.null
NotRaw(i) == i.null \/ i.compression # 0

\* if(offset >= img->size): the encoding is no smaller than the raw data.
NotSmaller_Never(offset, size) == FALSE
NotSmaller(offset, size) == offset >= size

\* What compressImg does once the row loop is left with e.
Encoded(i, e) ==
    LET buf == <<8, 33>> \o e.table \o e.recs IN
    IF e.over THEN [ret |-> 0, img |-> i, buf |-> buf]
    ELSE IF NotSmaller(e.offset, i.size) THEN [ret |-> 0, img |-> i, buf |-> buf]
    ELSE [ret |-> 0, buf |-> buf,
          img |-> [null |-> FALSE, w |-> i.w, h |-> i.h, compression |-> RLE_LINE,
                   size |-> e.offset, data |-> buf]]

\* compressImg(img): the value returned, the Img afterwards, and the local
\* buffer as it stood when the row loop was left (<<>> when it was not built).
compressImg(i) ==
    IF NotRaw(i) THEN [ret |-> 100, img |-> i, buf |-> <<>>]
    ELSE LET minSize == (2 + i.h * 2) + ((i.w + 255) \div 255) * 3 * i.h IN
    IF minSize > 65535 THEN [ret |-> 101, img |-> i, buf |-> <<>>]
    ELSE Encoded(i, EncodeRows(i.data, i.w, i.h, 0, 2 + 2 * i.h, <<>>, <<>>))

----------------------------------------------------------------------------
(* dumpBMP16 (bmp.c)                                                       *)

BufSize == 8192             \* u8 buf[8192]
RLE_ID  == 8456             \* 0x2108, the identifier as get_u16 reads it

\* setBMPHeaderV4: rowSize for 16 bpp, (2 * width + 3) & 0xFFFFFFFC.
RowSize16(width) == ((2 * width + 3) \div 4) * 4

\* The u32 product a * b as its four bytes, highest first (a < 2^18,
\* b < 2^16): what imageDataSize = rowSize * height keeps of the product.
MulU32(a, b) ==
    LET lo == a * (b % 256)
        hi == a * (b \div 256) + lo \div 256
    IN  <<(hi \div 65536) % 256, (hi \div 256) % 256, hi % 256, lo % 256>>

\* The u32 given by four bytes, divided by d (0 < d < 2^16).
DivU32(n, d) ==
    LET r1 == n[1] % d
        r2 == (r1 * 256 + n[2]) % d
        r3 == (r2 * 256 + n[3]) % d
    IN  (((n[1] \div d) * 256 + (r1 * 256 + n[2]) \div d) * 256
            + (r2 * 256 + n[3]) \div d) * 256
        + (r3 * 256 + n[4]) \div d

\* destRowSize = bmpHeader.imageDataSize / imgHeight, in u32 arithmetic.
DestRowSize(w, h) == DivU32(MulU32(RowSize16(w), h), h)

\* A read of srcData[i].  The bytes that exist are src; a read past them is
\* undefined and gives junk.
Rd(src, junk, i) == IF i < Len(src) THEN src[i + 1] ELSE junk
Rd16(src, junk, i) == U16(Rd(src, junk, i) + Rd(src, junk, i + 1) * 256)

\* row cut or zero-filled to n bytes: what fwrite(buf, 1, destRowSize) writes
\* after memset(buf, 0, destRowSize).
Fit(row, n) == [k \in 1..n |-> IF k <= Len(row) THEN row[k] ELSE 0]

\* What a dumpBMP16 call leaves: the value returned, the state of the output
\* file (none: never created, removed, open: left open with what was
\* written, complete), the rows written, whether it read past src, and the
\* highest index of buf the RLE_LINE pixel loop stored to (-1: none).
Dumped(r, f, rows, ub) ==
    [called |-> TRUE, ret |-> r, file |-> f, rows |-> rows, ub |-> ub, top |-> -1]

\* ---- RLE_LINE rows ----

\* Pixels the loop for(j < count) stores from bufIdx on: it leaves when
\* bufIdx + 1 >= sizeof(buf).
Stored(bufIdx, count) ==
    Cardinality({ j \in 0..(count - 1) : bufIdx + 2 * j + 1 < BufSize })

\* One 3-byte record at srcIdx expanded into buf at st.bufIdx; out keeps the
\* first destRowSize bytes of buf, all that is written to the file, and top
\* the highest index of buf stored to so far.
LineRecord(src, junk, srcIdx, destRowSize, st) ==
    LET count  == Rd(src, junk, srcIdx + 2)
        pixel0 == Rd(src, junk, srcIdx + 1)
        pixel1 == Rd(src, junk, srcIdx)
        n      == Stored(st.bufIdx, count)
        room   == IF destRowSize > Len(st.out) THEN (destRowSize - Len(st.out)) \div 2 ELSE 0
        m      == IF n < room THEN n ELSE room
        last   == st.bufIdx + 2 * n - 1
    IN  [bufIdx |-> st.bufIdx + 2 * n,
         out    |-> st.out \o [k \in 1..(2 * m) |-> IF k % 2 = 1 THEN pixel0 ELSE pixel1],
         ub     |-> st.ub \/ srcIdx + 2 >= Len(src),
         top    |-> IF n > 0 /\ last > st.top THEN last ELSE st.top]

\* Records lo..hi-1 of a row whose first record is at srcIdx0.
RECURSIVE LineRecords(_, _, _, _, _, _, _)
LineRecords(src, junk, srcIdx0, destRowSize, lo, hi, st) ==
    IF hi <= lo THEN st
    ELSE IF hi = lo + 1 THEN LineRecord(src, junk, srcIdx0 + 3 * lo, destRowSize, st)
    ELSE LET mid  == (lo + hi) \div 2
             left == LineRecords(src, junk, srcIdx0, destRowSize, lo, mid, st)
         IN  \* the test makes TLC evaluate the first half before the second
             IF left.bufIdx >= 0
             THEN LineRecords(src, junk, srcIdx0, destRowSize, mid, hi, left)
             ELSE left

\* One pass of for(y < imgHeight) in the RLE_LINE branch: while(srcIdx <
\* lineEndOffset[y]) takes ceil((end - srcIdx) / 3) records.  wfail is the
\* number of the fwrite call that fails (the header is call 0), -1 for none;
\* st.ret is -1 while the loop runs and 2 once a write has failed.
LineRow(src, junk, destRowSize, wfail, y, st) ==
    IF st.ret # -1 THEN st
    ELSE LET end == Rd16(src, junk, 2 + 2 * y)
             ub  == st.ub \/ 2 + 2 * y + 1 >= Len(src)
             n   == IF st.srcIdx < end THEN (end - st.srcIdx + 2) \div 3 ELSE 0
             r   == LineRecords(src, junk, st.srcIdx, destRowSize, 0, n,
                                [bufIdx |-> 0, out |-> <<>>, ub |-> ub, top |-> st.top])
         IN  IF wfail = y + 1
             THEN [st EXCEPT !.ret = 2, !.ub = r.ub, !.top = r.top]
             ELSE [srcIdx |-> st.srcIdx + 3 * n,
                   rows   |-> Append(st.rows, Fit(r.out, destRowSize)),
                   ub     |-> r.ub,
                   top    |-> r.top,
                   ret    |-> -1]

\* Rows lo..hi-1, by halves; each half collects its own rows.
RECURSIVE LineRowsSpan(_, _, _, _, _, _, _)
RECURSIVE LineRowsRest(_, _, _, _, _, _, _)
LineRowsSpan(src, junk, destRowSize, wfail, lo, hi, st) ==
    IF hi <= lo THEN st
    ELSE IF hi = lo + 1 THEN LineRow(src, junk, destRowSize, wfail, lo, st)
    ELSE LineRowsRest(src, junk, destRowSize, wfail, (lo + hi) \div 2, hi,
                      LineRowsSpan(src, junk, destRowSize, wfail, lo, (lo + hi) \div 2, st))

LineRowsJoin(left, right) == [right EXCEPT !.rows = left.rows \o right.rows]

LineRowsRest(src, junk, destRowSize, wfail, mid, hi, left) ==
    \* the test makes TLC evaluate the first half before the second
    IF left.ret >= -1
    THEN LineRowsJoin(left, LineRowsSpan(src, junk, destRowSize, wfail, mid, hi,
                                         [left EXCEPT !.rows = <<>>]))
    ELSE left

LineRowsDone(st) ==
    [Dumped(IF st.ret = 2 THEN 2 ELSE 0,
            IF st.ret = 2 THEN "removed" ELSE "complete", st.rows, st.ub)
        EXCEPT !.top = st.top]

\* The row loop of the RLE_LINE branch.
LineRows(src, junk, h, destRowSize, wfail, srcIdx, ub) ==
    LineRowsDone(LineRowsSpan(src, junk, destRowSize, wfail, 0, h,
                              [srcIdx |-> srcIdx, rows |-> <<>>, ub |-> ub,
                               top |-> -1, ret |-> -1]))

\* ---- RLE_BASIC rows ----

\* while(pixelCount < imgWidth) of one row.  run holds count, pixel0, pixel1
\* and i; short is TRUE when the source ran out (return 102).
RECURSIVE BasicFill(_, _, _, _, _, _, _, _)
BasicFill(src, junk, srcDataSize, w, srcIdx, pixelCount, out, run) ==
    IF pixelCount >= w THEN
        [short |-> FALSE, srcIdx |-> srcIdx, out |-> out, run |-> run,
         ub |-> FALSE]
    ELSE IF srcIdx + 2 >= srcDataSize THEN
        [short |-> TRUE, srcIdx |-> srcIdx, out |-> out, run |-> run, ub |-> FALSE]
    ELSE LET count  == Rd(src, junk, srcIdx + 2)
             pixel0 == Rd(src, junk, srcIdx + 1)
             pixel1 == Rd(src, junk, srcIdx)
             i      == IF count < w - pixelCount THEN count ELSE w - pixelCount
             r      == BasicFill(src, junk, srcDataSize, w, srcIdx + 3, pixelCount + i,
                                 out \o [k \in 1..(2 * i) |-> IF k % 2 = 1 THEN pixel0 ELSE pixel1],
                                 [count |-> count, pixel0 |-> pixel0, pixel1 |-> pixel1, i |-> i])
         IN  [r EXCEPT !.ub = @ \/ srcIdx + 2 >= Len(src)]

\* if(count > i) count -= i; else count = 0: what is left of the run in hand
\* for the next row.
LeftOver_None(count, i) == 0
LeftOver(count, i) == IF count > i THEN count - i ELSE 0

RECURSIVE BasicRows(_, _, _, _, _, _, _, _, _, _, _)
BasicRows(src, junk, srcDataSize, w, h, destRowSize, wfail, y, srcIdx, run, acc) ==
    IF y >= h THEN Dumped(0, "complete", acc.rows, acc.ub)
    ELSE LET \* pixels left over from the last row
             i0   == IF run.count > 0
                     THEN (IF run.count < w THEN run.count ELSE w)
                     ELSE 0
             out0 == [k \in 1..(2 * i0) |-> IF k % 2 = 1 THEN run.pixel0 ELSE run.pixel1]
             f    == BasicFill(src, junk, srcDataSize, w, srcIdx, i0, out0,
                               [run EXCEPT !.i = i0])
             left == LeftOver(f.run.count, f.run.i)
         IN  IF f.short THEN Dumped(102, "open", acc.rows, acc.ub \/ f.ub)
             ELSE IF wfail = y + 1 THEN Dumped(2, "removed", acc.rows, acc.ub \/ f.ub)
             ELSE BasicRows(src, junk, srcDataSize, w, h, destRowSize, wfail, y + 1,
                            f.srcIdx, [f.run EXCEPT !.count = left],
                            [rows |-> Append(acc.rows, Fit(f.out, destRowSize)),
                             ub |-> acc.ub \/ f.ub])

\* ---- plain RGB565 rows ----

\* Row y: each pixel is byte-swapped, then stored low byte first.
PlainRow(src, junk, w, destRowSize, y) ==
    [k \in 1..destRowSize |->
        IF k > 2 * w THEN 0
        ELSE LET x     == (k - 1) \div 2
                 pix   == swap_bo_u16(Rd16(src, junk, y * w * 2 + x * 2))
             IN  IF k % 2 = 1 THEN pix % 256 ELSE pix \div 256]

PlainRows(src, junk, w, h, destRowSize, wfail) ==
    IF wfail >= 1 /\ wfail <= h
    THEN Dumped(2, "removed", [y \in 1..(wfail - 1) |-> PlainRow(src, junk, w, destRowSize, y - 1)], FALSE)
    ELSE Dumped(0, "complete", [y \in 1..h |-> PlainRow(src, junk, w, destRowSize, y - 1)], FALSE)

\* When the identifier test sends a blob to an RLE decoder.
IsRLE_Never(src, junk) == FALSE
IsRLE(src, junk) == Rd16(src, junk, 0) = RLE_ID

\* dumpBMP16(filename, srcData, srcDataSize, imgWidth, imgHeight, basicRLE).
\* src holds the bytes that exist from srcData on, openOk tells whether
\* fopen succeeds, wfail which fwrite call fails.  imgHeight = 0 divides by
\* zero: the call does not return (ret = -2).
dumpBMP16(src, junk, srcDataSize, w, h, basicRLE, openOk, wfail) ==
    IF srcDataSize < 2 THEN Dumped(100, "none", <<>>, FALSE)
    ELSE IF h = 0 THEN Dumped(-2, "none", <<>>, TRUE)
    ELSE LET destRowSize == DestRowSize(w, h)
             ub0 == Len(src) < 2
         IN
    IF destRowSize > BufSize THEN Dumped(3, "none", <<>>, ub0)
    ELSE IF ~openOk THEN Dumped(1, "none", <<>>, ub0)
    ELSE IF wfail = 0 THEN Dumped(2, "removed", <<>>, ub0)
    ELSE IF IsRLE(src, junk) /\ ~basicRLE THEN
        LET srcIdx  == 2 * h + 2
            last    == Rd16(src, junk, 2 + (h - 1) * 2)
            ub1     == ub0 \/ 2 + (h - 1) * 2 + 1 >= Len(src)
        IN  \* dataEnd = last - 1 as a size_t: 0 - 1 is larger than any size
            IF srcIdx > srcDataSize \/ last = 0 \/ last - 1 > srcDataSize
            THEN Dumped(101, "removed", <<>>, ub1)
            ELSE LineRows(src, junk, h, destRowSize, wfail, srcIdx, ub1)
    ELSE IF IsRLE(src, junk) /\ basicRLE THEN
        BasicRows(src, junk, srcDataSize, w, h, destRowSize, wfail, 0, 2,
                  [count |-> 0, pixel0 |-> 0, pixel1 |-> 0, i |-> 0],
                  [rows |-> <<>>, ub |-> ub0])
    ELSE IF h * w * 2 > srcDataSize THEN Dumped(103, "open", <<>>, ub0)
    ELSE LET d == PlainRows(src, junk, w, h, destRowSize, wfail)
         IN  [d EXCEPT !.ub = ub0 \/ h * w * 2 > Len(src)]

----------------------------------------------------------------------------
(* The images the RLE specification starts from                            *)

MaxSmallW   == 4    \* every width 1..MaxSmallW
MaxFullRuns == 2    \* and the widths around 1..MaxFullRuns full runs of 255
MaxH        == 2    \* heights 1..MaxH
MaxCalls    == 2    \* compressImg calls on one image

Widths ==
    (1..MaxSmallW) \cup
    { MaxRun * j + d : j \in 1..MaxFullRuns, d \in {-1, 0, 1} }

\* Pixel values as they lie in img->data; <<8, 33>> is the RLE identifier.
Colours == { <<248, 31>>, <<8, 33>> }

Cuts(w) == { k \in {0, 1, MaxRun, MaxRun + 1, w} : k <= w }

\* n pixels of colour c, as bytes.
Run(c, n) == [i \in 1..(2 * n) |-> c[((i - 1) % 2) + 1]]

\* Rows y..h-1 of a picture of two colours: columns k1..k2-1 of an even row
\* have colour cb and the others ca; odd rows have the colours exchanged.
RECURSIVE PictureRows(_, _, _, _, _, _, _)
PictureRows(w, h, y, k1, k2, ca, cb) ==
    IF y >= h THEN <<>>
    ELSE LET c1 == IF y % 2 = 0 THEN ca ELSE cb
             c2 == IF y % 2 = 0 THEN cb ELSE ca
         IN  Run(c1, k1) \o Run(c2, k2 - k1) \o Run(c1, w - k2)
             \o PictureRows(w, h, y + 1, k1, k2, ca, cb)

Picture(w, h, k1, k2, ca, cb) == PictureRows(w, h, 0, k1, k2, ca, cb)

PicturesOfWidth(w) ==
    { NewImg(w, h, Picture(w, h, 0, 0, ca, ca)) : h \in 1..MaxH, ca \in Colours }
    \cup
    { NewImg(w, h, Picture(w, h, k[1], k[2], c[1], c[2])) :
        h \in 1..MaxH,
        k \in { kk \in Cuts(w) \X Cuts(w) : kk[1] < kk[2] },
        c \in { cc \in Colours \X Colours : cc[1] # cc[2] } }

Pictures == UNION { PicturesOfWidth(w) : w \in Widths }

\* The fewest rows whose table and one record each end above MaxOffset
\* (2 + 2 * h + 3 * h > 65535), in one column of one colour.
TallRows == (MaxOffset - 2) \div 5 + 1
TallPicture == NewImg(1, TallRows, Run(<<248, 31>>, TallRows))

\* Rows of MaxRun pixels that all differ from their neighbour: one record a
\* pixel, and the last of ManyRows rows ends above MaxOffset.
ManyRows == (MaxOffset - 2) \div (2 + 3 * MaxRun) + 1
ManyRunsPicture ==
    NewImg(MaxRun, ManyRows,
           [k \in 1..(2 * MaxRun * ManyRows) |->
               IF ((k - 1) \div 2) % 2 = 0 THEN <<248, 31>>[((k - 1) % 2) + 1]
               ELSE <<8, 33>>[((k - 1) % 2) + 1]])

BigPictures == { TallPicture, ManyRunsPicture }

----------------------------------------------------------------------------
(* SpecRLE: compressImg and dumpBMP16 on one image                         *)

InitRLE ==
    /\ IdlePix /\ IdleImport /\ IdleDetect /\ IdleTool
    /\ img \in Pictures \cup {NullImg}
    /\ orig = img
    /\ ret = -1
    /\ calls = 0
    /\ rleBuf = <<>>
    /\ dump = NoDump

\* What the environment may do to a dumpBMP16 call: fopen fails, the header
\* write fails, the first row write fails, or nothing fails.
IOs == { [openOk |-> FALSE, wfail |-> -1], [openOk |-> TRUE, wfail |-> -1],
         [openOk |-> TRUE, wfail |-> 0],   [openOk |-> TRUE, wfail |-> 1] }

\* Values a read past the end of a buffer may give.
JunkBytes == {0, 255}

CompressImg ==
    /\ calls < MaxCalls
    /\ dump = NoDump
    /\ \E c \in {compressImg(img)} :
           /\ img' = c.img
           /\ ret' = c.ret
           /\ rleBuf' = c.buf
    /\ calls' = calls + 1
    /\ UNCHANGED <<pixVars, impVars, detVars, toolVars, orig, dump>>

\* dumpBMP16 on img->data with the width and height of the image; basicRLE
\* is set for the data of type A files, marked RLE_BASIC here.
DumpImg ==
    /\ ~img.null
    /\ dump = NoDump
    /\ \E io \in IOs :
          LET d(junk) == dumpBMP16(img.data, junk, img.size, img.w, img.h,
                                   img.compression = RLE_BASIC,
                                   io.openOk, io.wfail)
          IN  \* junk only matters to a call that reads past the data
              \E d0 \in {d(0)} :
                  IF d0.ub THEN \E junk \in JunkBytes : dump' = d(junk)
                  ELSE dump' = d0
    /\ UNCHANGED <<pixVars, impVars, detVars, toolVars, img, orig, ret, calls, rleBuf>>

NextRLE == CompressImg \/ DumpImg

SpecRLE == InitRLE /\ [][NextRLE]_vars

----------------------------------------------------------------------------
(* Claims on compressImg and dumpBMP16, checked under SpecRLE               *)

\* The current image is the RLE_LINE encoding compressImg made of orig, and
\* dumpBMP16 has decoded it without an I/O failure (codes 1 and 2).
DecodedEncoding ==
    /\ dump.called /\ dump.ret \notin {1, 2}
    /\ ~img.null /\ img.compression = RLE_LINE
    /\ ~orig.null /\ RowSize16(orig.w) <= BufSize

\* C1 as stated: decoding the bytes compressImg produced, with dumpBMP16 in
\* row-indexed mode, succeeds and gives the rows that dumpBMP16 gives for the
\* original uncompressed pixel data.
C1_SameAsDumpOfOriginal ==
    DecodedEncoding =>
        /\ dump.ret = 0
        /\ \A junk \in JunkBytes :
              dump.rows = dumpBMP16(orig.data, junk, orig.size, orig.w, orig.h,
                                    FALSE, TRUE, -1).rows

\* C1 amended: decoding the bytes compressImg produced succeeds and gives,
\* row by row, the byte-swapped zero-padded pixels of the original (the rows
\* of dumpBMP16's plain RGB565 branch), which is also what dumpBMP16 itself
\* gives for the original unless the original starts with the bytes 08 21.
C1_RoundTrip ==
    DecodedEncoding =>
        /\ dump.ret = 0
        /\ dump.file = "complete"
        /\ dump.rows = PlainRows(orig.data, 0, orig.w, orig.h, RowSize16(orig.w), -1).rows
        /\ <<orig.data[1], orig.data[2]>> # <<8, 33>> =>
              \A junk \in JunkBytes :
                 dump.rows = dumpBMP16(orig.data, junk, orig.size, orig.w, orig.h,
                                       FALSE, TRUE, -1).rows

\* C1 witness: a two-row image wider than one full run, one of whose rows
\* has a run of exactly 255 followed by another colour, encoded and decoded.
C1_Witness ==
    /\ DecodedEncoding /\ dump.ret = 0
    /\ orig.h = 2 /\ orig.w = MaxRun + 1
    /\ orig.data[1] # orig.data[2 * MaxRun + 1]

\* C5: a compressImg call on a NULL image or on an image whose compression
\* is not NONE returns 100 and leaves the image as it was.
C5_RejectsNotRaw ==
    [][ (calls' = calls + 1 /\ (img.null \/ img.compression # NONE))
            => (ret' = 100 /\ img' = img) ]_vars

\* C5 witness: the second call on an image the first call encoded.
C5_Witness ==
    calls = 2 /\ ~img.null /\ img.compression = RLE_LINE /\ ret = 100

\* The records of row y in the buffer compressImg built, found through the
\* row end offsets it stored.
RowRecords(buf, h, y) ==
    LET from == IF y = 0 THEN 2 + 2 * h ELSE get_u16(buf, 2 + 2 * (y - 1))
        to   == get_u16(buf, 2 + 2 * y)
    IN  Slice(buf, from, to)

UniformRow(i, y) ==
    \A x \in 0..(i.w - 1) : Curr(i.data, i.w, y, x) = Curr(i.data, i.w, y, 0)

\* floor(n / 255) records of count 255, then one of count n mod 255 if not 0.
ExpectedRecords(c, n) ==
    [k \in 1..(3 * (n \div 255)) |-> IF k % 3 = 1 THEN c[1] ELSE IF k % 3 = 2 THEN c[2] ELSE 255]
    \o (IF n % 255 # 0 THEN <<c[1], c[2], n % 255>> ELSE <<>>)

\* C6: a row of N identical pixels is encoded as floor(N/255) records of
\* count 255 followed by one record of count N mod 255 when that is not 0.
C6_UniformRowRecords ==
    (calls >= 1 /\ rleBuf # <<>>) =>
        \A y \in 0..(orig.h - 1) :
            UniformRow(orig, y) =>
                RowRecords(rleBuf, orig.h, y)
                    = ExpectedRecords(Curr(orig.data, orig.w, y, 0), orig.w)

\* C6 witness: a row of 256 identical pixels gave the records 255 and 1.
C6_Witness ==
    /\ calls >= 1 /\ rleBuf # <<>> /\ orig.w = 256 /\ orig.h = 1
    /\ UniformRow(orig, 0)
    /\ RowRecords(rleBuf, 1, 0)
         = <<orig.data[1], orig.data[2], 255, orig.data[1], orig.data[2], 1>>

----------------------------------------------------------------------------
(* SpecPix: RGB565to888 on every stored 16-bit pixel                       *)

InitPix ==
    /\ pixel \in 0..65535
    /\ rgb = NoTrip
    /\ pix565 = -1
    /\ IdleRLE /\ IdleImport /\ IdleDetect /\ IdleTool

Expand ==
    /\ rgb = NoTrip
    /\ rgb' = RGB565to888(pixel)
    /\ UNCHANGED <<pixel, pix565, rleVars, impVars, detVars, toolVars>>

\* RGBTripTo565(&rgb) on the triple RGB565to888 returned, as the blend of
\* newImgFromFile calls it on a background pixel.
Truncate ==
    /\ rgb # NoTrip
    /\ pix565 = -1
    /\ pix565' = RGBTripTo565(rgb)
    /\ UNCHANGED <<pixel, rgb, rleVars, impVars, detVars, toolVars>>

NextPix == Expand \/ Truncate

SpecPix == InitPix /\ [][NextPix]_vars

\* The three bit fields of the pixel once its two bytes are exchanged.
Field565(pix) ==
    LET p == (pix % 256) * 256 + pix \div 256
    IN  [r |-> p \div 2048, g |-> (p \div 32) % 64, b |-> p % 32]

\* C7: each 8-bit channel is its field shifted to the top of the byte with
\* the field's top bits in the low bits: (f << 3) | (f >> 2) for the 5-bit
\* red and blue, (f << 2) | (f >> 4) for the 6-bit green.
C7_TopBitsReplicated ==
    rgb # NoTrip =>
        LET f == Field565(pixel)
        IN  /\ rgb.r = f.r * 8 + f.r \div 4
            /\ rgb.g = f.g * 4 + f.g \div 16
            /\ rgb.b = f.b * 8 + f.b \div 4

----------------------------------------------------------------------------
(* Bitmap files and newImgFromFile (bmp.c, bmp.h)                          *)

BmpHeaderClassicSize == 66          \* sizeof(BMPHeaderClassic), pack (2)
BmpHeaderV4Size == 122              \* sizeof(BMPHeaderV4), pack (2)
BASIC_BMP_HEADER_SIZE == BmpHeaderClassicSize - 12
BM == 19778                         \* 0x4D42

Masks565 == <<63488, 2016, 31>>         \* 0xF800, 0x07E0, 0x001F
Masks888 == <<16711680, 65280, 255>>    \* 0xFF0000, 0x00FF00, 0x0000FF

\* The header setBMPHeaderV4 builds.  masks are the three u32 after
\* clrImportant: RGBAmasks[0..2] of BMPHeaderV4, bmiColors[0..2] of
\* BMPHeaderClassic.
setBMPHeaderV4(width, height, bpp) ==
    LET rowSize == (((bpp \div 8) * width + 3) \div 4) * 4
    IN  [ sig |-> BM, reserved1 |-> 0, reserved2 |-> 0,
          offset |-> BmpHeaderV4Size, dibHeaderSize |-> 108,
          width |-> width, height |-> -height, planes |-> 1, bpp |-> bpp,
          compressionType |-> IF bpp = 16 THEN 3 ELSE 0,
          masks |-> IF bpp = 16 THEN Masks565 ELSE <<0, 0, 0>>,
          imageDataSize |-> rowSize * height ]

\* A file as newBytesFromFile returns it: the header fields at bytes->data,
\* the bytes from h.offset to the end of the file, and bytes->size.
BmpFile(h, body) ==
    [readable |-> TRUE, h |-> h, body |-> body, size |-> h.offset + Len(body)]

\* bytes->data[p] for p at or after h.offset; past bytes->size the read is
\* undefined and gives junk.
FileByte(f, junk, p) ==
    IF p < f.size THEN f.body[p - f.h.offset + 1] ELSE junk

\* What a newImgFromFile call leaves: the Img returned (NullImg for NULL)
\* and whether it read past the file or past the background's data.
Imported(i, ub) == [called |-> TRUE, img |-> i, ub |-> ub]

\* (255 - a) * bg + a * fg over 255, per channel, then packed to RGB565.
BlendOver_NoAlpha(pixelIn, b, g, r, a) == RGBTripTo565(RGB565to888(pixelIn))
BlendOver(pixelIn, b, g, r, a) ==
    LET bgPixel == RGB565to888(pixelIn)
        mix(bgc, c) == U8(((255 - a) * bgc + a * c) \div 255)
    IN  RGBTripTo565([r |-> mix(bgPixel.r, r), g |-> mix(bgPixel.g, g),
                      b |-> mix(bgPixel.b, b)])

\* row = topDown ? y : (img->h - y - 1): the line of the file that holds
\* line y of the image.
FileRow_TopDown(topDown, h, y) == y
FileRow(topDown, h, y) == IF topDown THEN y ELSE h - y - 1

\* img->data of the three import paths, and the last index each reads.
Data16(f, junk, w, h, topDown, rowSize) ==
    [k \in 1..(w * h * 2) |->
        LET y == (k - 1) \div (w * 2)
            j == (k - 1) % (w * 2)
            row == FileRow(topDown, h, y)
            bmpOffset == f.h.offset + row * rowSize
        IN  FileByte(f, junk, bmpOffset + (IF j % 2 = 0 THEN j + 1 ELSE j - 1))]

BgIndex(bgi, bpx, bpy, x, y) == 2 * bgi.w * (bpy + y) + 2 * (bpx + x)

DataBlend(f, junk, w, h, topDown, rowSize, bgi, bpx, bpy) ==
    [k \in 1..(w * h * 2) |->
        LET y == (k - 1) \div (w * 2)
            x == ((k - 1) % (w * 2)) \div 2
            row == FileRow(topDown, h, y)
            at == f.h.offset + row * rowSize + x * 4
            pixelIn == Rd16(bgi.data, junk, BgIndex(bgi, bpx, bpy, x, y))
            pixelOut == BlendOver(pixelIn, FileByte(f, junk, at), FileByte(f, junk, at + 1),
                                  FileByte(f, junk, at + 2), FileByte(f, junk, at + 3))
        IN  IF k % 2 = 1 THEN pixelOut \div 256 ELSE pixelOut % 256]

Data888(f, junk, w, h, topDown, rowSize) ==
    [k \in 1..(w * h * 2) |->
        LET y == (k - 1) \div (w * 2)
            x == ((k - 1) % (w * 2)) \div 2
            row == FileRow(topDown, h, y)
            n == f.h.bpp \div 8
            at == f.h.offset + row * rowSize + x * n
            buf == <<FileByte(f, junk, at), FileByte(f, junk, at + 1), FileByte(f, junk, at + 2)>>
            pix == IF f.h.bpp = 24 THEN RGB888to565(buf) ELSE ARGB8888to565(buf)
        IN  IF k % 2 = 1 THEN pix \div 256 ELSE pix % 256]

\* The header tests at the top of newImgFromFile that set fail.
HeaderFails(h) ==
    \/ h.sig # BM
    \/ h.dibHeaderSize \notin {40, 108, 124}
    \/ h.planes # 1 \/ h.reserved1 # 0 \/ h.reserved2 # 0
    \/ h.bpp \notin {16, 24, 32}
    \/ (h.bpp = 16 /\ h.compressionType # 3)
    \/ (h.bpp \in {24, 32} /\ h.compressionType \notin {0, 3})

BlendPath_Never(h, bgi) == FALSE
BlendPath(h, bgi) == h.bpp = 32 /\ ~bgi.null /\ h.dibHeaderSize > 40

\* newImgFromFile(filename, backgroundImg, bpx, bpy).  In the blend path
\* with compressionType 3 the masks are read through (BMPHeaderV4 *)&h, the
\* address of the local pointer, so the test reads whatever lies on the
\* stack: masksOk is the outcome of that test.
newImgFromFile(f, bgi, bpx, bpy, junk, masksOk) ==
    IF ~f.readable THEN Imported(NullImg, FALSE)
    ELSE IF f.size < BASIC_BMP_HEADER_SIZE THEN Imported(NullImg, FALSE)
    ELSE IF HeaderFails(f.h) THEN Imported(NullImg, FALSE)
    ELSE
    LET h == f.h
        topDown == h.height < 0
        height == IF topDown THEN -h.height ELSE h.height
    IN  IF height < 1 \/ h.width < 1 THEN Imported(NullImg, FALSE)
        ELSE
        LET recompute == (h.imageDataSize \div height) < h.width * 2
            imageDataSize == IF recompute THEN f.size - h.offset ELSE h.imageDataSize
            rowSize == imageDataSize \div height
            w == h.width
            last(n) == h.offset + (height - 1) * rowSize + w * n - 1
        IN  IF rowSize < h.width * 2 THEN Imported(NullImg, FALSE)
            ELSE IF h.offset + imageDataSize < f.size THEN Imported(NullImg, FALSE)
            ELSE IF h.bpp = 16 THEN
                IF f.size < BmpHeaderClassicSize THEN Imported(NullImg, FALSE)
                ELSE IF h.masks # Masks565 THEN Imported(NullImg, FALSE)
                ELSE Imported(NewImg(w, height, Data16(f, junk, w, height, topDown, rowSize)),
                              last(2) >= f.size)
            ELSE IF BlendPath(h, bgi) THEN
                IF h.compressionType = 3 /\ ~masksOk THEN Imported(NullImg, TRUE)
                ELSE Imported(NewImg(w, height, DataBlend(f, junk, w, height, topDown,
                                                          rowSize, bgi, bpx, bpy)),
                              \/ h.compressionType = 3
                              \/ last(4) >= f.size
                              \/ BgIndex(bgi, bpx, bpy, w - 1, height - 1) + 1 >= Len(bgi.data))
            ELSE
                IF h.compressionType = 3 /\ h.masks # Masks888 THEN Imported(NullImg, FALSE)
                ELSE Imported(NewImg(w, height, Data888(f, junk, w, height, topDown, rowSize)),
                              last(h.bpp \div 8) - (IF h.bpp = 32 THEN 1 ELSE 0) >= f.size)

----------------------------------------------------------------------------
(* SpecImport: newImgFromFile on one bitmap file                           *)

MaxBmpW == 2
MaxBmpH == 2

\* Foreground pixels as stored in a 32 bpp file: b, g, r, a.
FgPixels == << <<37, 130, 201, 0>>, <<37, 130, 201, 255>>, <<255, 7, 3, 128>>,
               <<0, 255, 250, 255>>, <<255, 255, 255, 0>> >>

\* Background pixels as stored in img->data.
BgPixels == << <<0, 4>>, <<255, 255>>, <<18, 52>>, <<8, 33>>, <<0, 31>> >>

\* n pixels taken from list in turn, starting after the first s.
Cycle(list, n, s) == [k \in 1..n |-> list[((k - 1 + s) % Len(list)) + 1]]

RECURSIVE Flatten(_)
Flatten(seqs) ==
    IF seqs = <<>> THEN <<>>
    ELSE IF Len(seqs) = 1 THEN seqs[1]
    ELSE Flatten(SubSeq(seqs, 1, Len(seqs) \div 2))
            \o Flatten(SubSeq(seqs, Len(seqs) \div 2 + 1, Len(seqs)))

\* h rows of w pixels of n bytes each, every row zero-padded to 4 bytes.
Body(pix, w, h, n) ==
    LET rowSize == ((n * w + 3) \div 4) * 4
    IN  Flatten([y \in 1..h |->
                    Fit(Flatten([x \in 1..w |->
                                   [c \in 1..n |-> pix[(y - 1) * w + x][c]]]), rowSize)])

\* The header of a well-formed file of the given depth and header kind.
Header(w, h, bpp, topDown, dib, comp) ==
    [ setBMPHeaderV4(w, h, bpp) EXCEPT
        !.height = IF topDown THEN -h ELSE h,
        !.dibHeaderSize = dib,
        !.offset = IF dib = 40 THEN (IF comp = 3 THEN BmpHeaderClassicSize
                                     ELSE BASIC_BMP_HEADER_SIZE)
                   ELSE BmpHeaderV4Size,
        !.compressionType = comp,
        !.masks = IF comp # 3 THEN <<0, 0, 0>>
                  ELSE IF bpp = 16 THEN Masks565 ELSE Masks888 ]

Files32 ==
    { BmpFile(Header(w, h, 32, td, k[1], k[2]), Body(Cycle(FgPixels, w * h, s), w, h, 4)) :
        w \in 1..MaxBmpW, h \in 1..MaxBmpH, s \in 0..(Len(FgPixels) - 1),
        td \in BOOLEAN, k \in {<<40, 0>>, <<108, 0>>, <<108, 3>>} }

Files24 ==
    { BmpFile(Header(w, h, 24, td, 40, comp), Body(Cycle(FgPixels, w * h, s), w, h, 3)) :
        w \in 1..MaxBmpW, h \in 1..MaxBmpH, s \in {0, 2},
        td \in BOOLEAN, comp \in {0, 3} }

Files16 ==
    { BmpFile(Header(w, h, 16, td, dib, 3), Body(Cycle(BgPixels, w * h, s), w, h, 2)) :
        w \in 1..MaxBmpW, h \in 1..MaxBmpH, s \in {0, 1},
        td \in BOOLEAN, dib \in {40, 108} }

\* One well-formed file with one header field or its length spoiled.
Spoiled(f) ==
    { [f EXCEPT !.h.sig = 0], [f EXCEPT !.h.dibHeaderSize = 12],
      [f EXCEPT !.h.planes = 0], [f EXCEPT !.h.reserved1 = 1],
      [f EXCEPT !.h.bpp = 8], [f EXCEPT !.h.compressionType = 1],
      [f EXCEPT !.h.compressionType = 3 - f.h.compressionType],
      [f EXCEPT !.h.masks = <<31, 2016, 63488>>],
      [f EXCEPT !.h.width = 0], [f EXCEPT !.h.height = 0],
      [f EXCEPT !.h.imageDataSize = 0],
      [f EXCEPT !.h.imageDataSize = 0, !.h.width = f.h.width + Len(f.body)],
      [f EXCEPT !.body = f.body \o <<0, 0, 0, 0>>, !.size = f.size + 4],
      [f EXCEPT !.body = SubSeq(f.body, 1, Len(f.body) - 1), !.size = f.size - 1],
      [f EXCEPT !.body = <<>>, !.size = f.h.offset],
      [f EXCEPT !.size = BASIC_BMP_HEADER_SIZE - 1] }

SpoiledFiles ==
    UNION { Spoiled(f) : f \in { g \in Files16 \cup Files24 \cup Files32 :
                                   g.h.width = MaxBmpW /\ g.h.height = -1 } }

BgImgs ==
    { NewImg(w, h, Flatten(Cycle(BgPixels, w * h, s))) :
        w \in MaxBmpW..(MaxBmpW + 1), h \in MaxBmpH..(MaxBmpH + 1),
        s \in 0..(Len(BgPixels) - 1) }

InitImport ==
    /\ IdlePix /\ IdleRLE /\ IdleDetect /\ IdleTool
    /\ \/ /\ bmpFile \in Files32
          /\ backgroundImg \in BgImgs
          /\ bp \in (0..1) \X (0..1)
       \/ /\ bmpFile \in Files16 \cup Files24 \cup Files32 \cup SpoiledFiles \cup {NoFile}
          /\ backgroundImg = NullImg
          /\ bp = <<0, 0>>
    /\ imported = NotImported

Import ==
    /\ imported = NotImported
    /\ \E junk \in JunkBytes, masksOk \in BOOLEAN :
          imported' = newImgFromFile(bmpFile, backgroundImg, bp[1], bp[2], junk, masksOk)
    /\ UNCHANGED <<pixVars, rleVars, detVars, toolVars, bmpFile, backgroundImg, bp>>

NextImport == Import

SpecImport == InitImport /\ [][NextImport]_vars

----------------------------------------------------------------------------
(* Claims on newImgFromFile, checked under SpecImport                       *)

\* An image came out of the blend path.
Blended ==
    /\ imported.called /\ ~imported.img.null
    /\ bmpFile.h.bpp = 32 /\ ~backgroundImg.null /\ bmpFile.h.dibHeaderSize > 40

\* The b, g, r, a bytes of the bitmap's pixel that lands on (x, y) of the
\* image: rows of 4 * w bytes, the last row first unless the height is
\* negative.
Foreground(x, y) ==
    LET w == imported.img.w
        row == IF bmpFile.h.height < 0 THEN y ELSE imported.img.h - 1 - y
    IN  SubSeq(bmpFile.body, row * 4 * w + 4 * x + 1, row * 4 * w + 4 * x + 4)

\* The two bytes of pixel (x, y) of an Img.
PixelAt(i, x, y) == SubSeq(i.data, 2 * (y * i.w + x) + 1, 2 * (y * i.w + x) + 2)

OnBackground(x, y) ==
    bp[1] + x < backgroundImg.w /\ bp[2] + y < backgroundImg.h

\* C8: in the blend path a foreground pixel with alpha 0 gives the
\* background's pixel at (bpx + x, bpy + y) unchanged, and a foreground
\* pixel with alpha 255 gives the foreground truncated to RGB565,
\* (r >> 3, g >> 2, b >> 3), stored high byte first.
C8_BlendEnds ==
    Blended =>
        \A x \in 0..(imported.img.w - 1), y \in 0..(imported.img.h - 1) :
            LET fg == Foreground(x, y)
                t == (fg[3] \div 8) * 2048 + (fg[2] \div 4) * 32 + (fg[1] \div 8)
            IN  /\ (fg[4] = 0 /\ OnBackground(x, y)) =>
                      PixelAt(imported.img, x, y)
                          = PixelAt(backgroundImg, bp[1] + x, bp[2] + y)
                /\ fg[4] = 255 => PixelAt(imported.img, x, y) = <<t \div 256, t % 256>>

\* C8 witness: a bottom-up bitmap of two rows placed off the background's
\* origin, with a pixel of alpha 0 and a pixel of alpha 255 that differ from
\* what lies under them.
C8_Witness ==
    /\ Blended /\ bmpFile.h.height = 2 /\ bp = <<1, 1>>
    /\ \E x \in 0..(imported.img.w - 1) :
          /\ Foreground(x, 0)[4] = 0 /\ OnBackground(x, 0)
          /\ PixelAt(imported.img, x, 0) = PixelAt(backgroundImg, 1 + x, 1)
          /\ PixelAt(imported.img, x, 0) # <<0, 0>>
    /\ \E x \in 0..(imported.img.w - 1), y \in 0..1 :
          /\ Foreground(x, y)[4] = 255 /\ OnBackground(x, y)
          /\ PixelAt(imported.img, x, y) # PixelAt(backgroundImg, 1 + x, 1 + y)

----------------------------------------------------------------------------
(* autodetectFileType (dawft.c)                                            *)

\* A u32 is held as the two's complement integer with the same 32 bits:
\* values from 2^31 up are the negative integers.
get_u32(b) ==
    b[1] + b[2] * 256 + b[3] * 65536
         + (IF b[4] >= 128 THEN b[4] - 256 ELSE b[4]) * 16777216

\* v + n in 32 bits, for 0 <= n < 2^31.
U32Add(v, n) ==
    IF v >= 0 /\ v > 2147483647 - n
    THEN (v - 2147483647 - 1) + (n - 2147483647 - 1)
    ELSE v + n

\* v > n for a u32 v and a size n < 2^31.
U32Gt(v, n) == v < 0 \/ v > n

\* A buffer as autodetectFileType reads it: its size, the byte at offset 2,
\* and the 4-byte groups it holds from byte 200 on, group k at 200 + 4 * k;
\* groups not listed are zero.  The table at 400 starts at group 50.
Buffer(size, blobCount, groups) ==
    [size |-> size, blobCount |-> blobCount, groups |-> groups]

Group(f, k) == IF k \in DOMAIN f.groups THEN f.groups[k] ELSE <<0, 0, 0, 0>>

\* One turn of the loop over i.
DetectStep(f, i, st) ==
    LET a == IF st.typeARunning
             THEN IF get_u32(Group(f, i)) # 0
                  THEN [st EXCEPT !.typeACount = @ + 1]
                  ELSE [st EXCEPT !.typeARunning = FALSE]
             ELSE st
        offset == get_u32(Group(f, 50 + i))
    IN  IF a.typeBRunning
        THEN IF offset # 0
             THEN [a EXCEPT !.typeBCount = @ + 1, !.typeBMax = offset]
             ELSE [a EXCEPT !.typeBRunning = FALSE]
        ELSE a

\* The turns i = lo .. hi of the loop, in order, halving the span.
RECURSIVE DetectLoop(_, _, _, _)
DetectLoop(f, lo, hi, st) ==
    IF lo = hi THEN DetectStep(f, lo, st)
    ELSE LET mid == (lo + hi) \div 2
             left == DetectLoop(f, lo, mid, st)
         IN  IF left.typeACount >= 0 THEN DetectLoop(f, mid + 1, hi, left) ELSE left

HeaderAdded_Not(typeBMax) == typeBMax
HeaderAdded(typeBMax) == U32Add(typeBMax, 1900)

autodetectFileType(f) ==
    LET st == DetectLoop(f, 1, 249, [typeACount |-> 1, typeARunning |-> TRUE,
                                     typeBCount |-> 1, typeBRunning |-> TRUE,
                                     typeBMax |-> 0])
    IN  IF st.typeACount = f.blobCount THEN "A"
        ELSE IF st.typeBCount = f.blobCount
             THEN IF U32Gt(HeaderAdded(st.typeBMax), f.size) THEN "B" ELSE "C"
             ELSE "A"

----------------------------------------------------------------------------
(* SpecDetect: autodetectFileType on one buffer                            *)

MaxEntries == 3

Zero4 == <<0, 0, 0, 0>>

\* Entries of the table at 400: 0, 100, 3100, 0xFFFFFFFF.
DetVals == { Zero4, <<100, 0, 0, 0>>, <<28, 12, 0, 0>>, <<255, 255, 255, 255>> }

\* What lies in the groups before the table at 400: nothing, one or two
\* entries after group 0, or every group up to the table, with the table's
\* entry 0 zero or not.
Fronts ==
    { [k \in {} |-> Zero4],
      [k \in 1..1 |-> <<1, 0, 0, 0>>],
      [k \in 1..2 |-> <<0, 0, 1, 0>>],
      [k \in 1..49 |-> <<0, 1, 0, 0>>],
      [k \in 1..50 |-> <<0, 1, 0, 0>>] }

Buffers ==
    { Buffer(size, blobCount,
             [k \in DOMAIN front \cup 51..(50 + MaxEntries) |->
                 IF k > 50 THEN t[k - 50] ELSE front[k]]) :
        size \in {1700, 2000, 6000},
        blobCount \in 0..(MaxEntries + 1) \cup {50},
        front \in Fronts,
        t \in [1..MaxEntries -> DetVals] }

InitDetect ==
    /\ IdlePix /\ IdleRLE /\ IdleImport /\ IdleTool
    /\ detFile \in Buffers
    /\ detected = ""

Autodetect ==
    /\ detected = ""
    /\ detected' = autodetectFileType(detFile)
    /\ UNCHANGED <<pixVars, rleVars, impVars, toolVars, detFile>>

NextDetect == Autodetect

SpecDetect == InitDetect /\ [][NextDetect]_vars

----------------------------------------------------------------------------
(* Claims on autodetectFileType, checked under SpecDetect                   *)

\* 1 plus the number of consecutive non-zero groups after group first.
RECURSIVE Populated(_, _, _)
Populated(f, first, n) ==
    IF n < 249 /\ Group(f, first + n + 1) # Zero4
    THEN Populated(f, first, n + 1)
    ELSE n + 1

\* The offsets of the populated entries 1.. of the table at 400.
ObservedOffsets(f) ==
    { get_u32(Group(f, 50 + i)) : i \in 1..(Populated(f, 50, 0) - 1) }

\* The largest of a set of u32 values, 0 for the empty set.
MaxU32(S) ==
    IF S = {} THEN 0
    ELSE IF \E v \in S : v < 0
         THEN CHOOSE v \in S : v < 0 /\ \A u \in S : u < 0 => u <= v
         ELSE CHOOSE v \in S : \A u \in S : u <= v

\* v + 1900 > n without wrap-around, for a u32 v and a size n < 2^31.
Plus1900Exceeds(v, n) == v < 0 \/ v > n - 1900

----------------------------------------------------------------------------
(* Binary watch face files and FaceHeader (dawft.c)                        *)

FaceHeaderSize == 1900      \* sizeof(FaceHeader)
MinHeaderSize == 1700       \* the header of a type A file

\* A file as newBytesFromFile returns it: bytes->size and bytes->data, of
\* which data lists the non-zero bytes by index.
BinFile(size, f) ==
    [readable |-> TRUE, size |-> size,
     data |-> [i \in {j \in DOMAIN f : j < size /\ f[j] # 0} |-> f[i]]]

Byte(f, i) == IF i \in DOMAIN f.data THEN f.data[i] ELSE 0
Bytes2(f, i) == <<Byte(f, i), Byte(f, i + 1)>>
Bytes4(f, i) == <<Byte(f, i), Byte(f, i + 1), Byte(f, i + 2), Byte(f, i + 3)>>

\* The four bytes of a u32 in memory.
U32Bytes(v) ==
    LET q == IF v < 0 THEN (v + 2147483647) + 1 ELSE v
    IN  <<q % 256, (q \div 256) % 256, (q \div 65536) % 256,
          (q \div 16777216) + (IF v < 0 THEN 128 ELSE 0)>>

ZeroFaceData == [type |-> 0, idx |-> 0, x |-> 0, y |-> 0, w |-> 0, h |-> 0]

FaceDataAt(f, idx) ==
    [type |-> Byte(f, idx), idx |-> Byte(f, idx + 1),
     x |-> get_u16(Bytes2(f, idx + 2), 0), y |-> get_u16(Bytes2(f, idx + 4), 0),
     w |-> get_u16(Bytes2(f, idx + 6), 0), h |-> get_u16(Bytes2(f, idx + 8), 0)]

FaceDataAAt(f, idx) ==
    [type |-> Byte(f, idx), idx |-> Byte(f, idx + 5),
     x |-> Byte(f, idx + 1), y |-> Byte(f, idx + 2),
     w |-> Byte(f, idx + 3), h |-> Byte(f, idx + 4)]

\* setHeader(&header, fileData, fileType): the FaceHeader it fills.
setHeader(f, ft) ==
    IF ft \notin {"A", "B", "C"} THEN NoHeader
    ELSE
    LET n == IF ft = "A" THEN 32 ELSE 39
        per == IF ft = "A" THEN 6 ELSE 10
        pad == IF ft = "A" THEN 3 ELSE 5
        tab == 5 + n * per + pad
    IN  [ parsed |-> TRUE,
          fileID |-> Byte(f, 0), dataCount |-> Byte(f, 1), blobCount |-> Byte(f, 2),
          faceNumber |-> get_u16(Bytes2(f, 3), 0),
          faceData |-> [k \in 0..38 |->
                          IF k >= n THEN ZeroFaceData
                          ELSE IF ft = "A" THEN FaceDataAAt(f, 5 + 6 * k)
                          ELSE FaceDataAt(f, 5 + 10 * k)],
          padding |-> [k \in 0..4 |-> IF k < pad THEN Byte(f, 5 + n * per + k) ELSE 0],
          offsets |-> [k \in 0..249 |-> get_u32(Bytes4(f, tab + 4 * k))],
          sizes |-> [k \in 0..249 |-> get_u16(Bytes2(f, tab + 1000 + 2 * k), 0)] ]

\* The last index of buf that setHeader reads.
HeaderLastRead(ft) ==
    (IF ft = "A" THEN 5 + 32 * 6 + 3 ELSE 5 + 39 * 10 + 5) + 250 * 4 + 250 * 2 - 1

\* The last index of fileData that autodetectFileType reads.
DetectLastRead == 400 + 249 * 4 + 3

\* Byte p of a FaceHeader in memory, as fwrite((u8 *)&h, ...) writes it.
HeaderByte(h, p) ==
    IF p = 0 THEN h.fileID
    ELSE IF p = 1 THEN h.dataCount
    ELSE IF p = 2 THEN h.blobCount
    ELSE IF p < 5 THEN set_u16(h.faceNumber)[p - 2]
    ELSE IF p < 395 THEN
        LET fd == h.faceData[(p - 5) \div 10]
            r == (p - 5) % 10
        IN  IF r = 0 THEN fd.type
            ELSE IF r = 1 THEN fd.idx
            ELSE set_u16(<<fd.x, fd.y, fd.w, fd.h>>[r \div 2])[(r % 2) + 1]
    ELSE IF p < 400 THEN h.padding[p - 395]
    ELSE IF p < 1400 THEN U32Bytes(h.offsets[(p - 400) \div 4])[((p - 400) % 4) + 1]
    ELSE set_u16(h.sizes[(p - 1400) \div 2])[((p - 1400) % 2) + 1]

\* FaceHeader h = { 0 }.
ZeroHeader ==
    [ parsed |-> TRUE, fileID |-> 0, dataCount |-> 0, blobCount |-> 0, faceNumber |-> 0,
      faceData |-> [k \in 0..38 |-> ZeroFaceData], padding |-> [k \in 0..4 |-> 0],
      offsets |-> [k \in 0..249 |-> 0], sizes |-> [k \in 0..249 |-> 0] ]

\* The view autodetectFileType has of a file.
DetectView(f) ==
    Buffer(f.size, Byte(f, 2),
           [k \in { j \in 0..299 : Bytes4(f, 200 + 4 * j) # <<0, 0, 0, 0>> } |->
               Bytes4(f, 200 + 4 * k)])

\* dataTypes[]: type, str, count.
dataTypes ==
    << <<0, "BACKGROUNDS", 10>>, <<1, "BACKGROUND", 1>>, <<16, "MONTH_NAME", 12>>,
       <<17, "MONTH_NUM", 10>>, <<18, "YEAR", 10>>, <<48, "DAY_NUM", 10>>,
       <<64, "TIME_H1", 10>>, <<65, "TIME_H2", 10>>, <<67, "TIME_M1", 10>>,
       <<68, "TIME_M2", 10>>, <<69, "TIME_AM", 1>>, <<70, "TIME_PM", 1>>,
       <<96, "DAY_NAME", 7>>, <<97, "DAY_NAME_CN", 7>>, <<98, "STEPS", 10>>,
       <<99, "STEPS_CA", 10>>, <<100, "STEPS_RA", 10>>, <<101, "HR", 10>>,
       <<102, "HR_CA", 10>>, <<103, "HR_RA", 10>>, <<104, "KCAL", 10>>,
       <<107, "MONTH_NUM_B", 10>>, <<108, "DAY_NUM_B", 10>>, <<112, "STEPS_PROGBAR", 11>>,
       <<113, "STEPS_LOGO", 1>>, <<114, "STEPS_B", 10>>, <<115, "STEPS_B_CA", 10>>,
       <<116, "STEPS_B_RA", 10>>, <<118, "STEPS_GOAL", 1>>, <<128, "HR_PROGBAR", 11>>,
       <<129, "HR_LOGO", 1>>, <<130, "HR_B", 10>>, <<131, "HR_B_CA", 10>>,
       <<132, "HR_B_RA", 10>>, <<144, "KCAL_PROGBAR", 11>>, <<145, "KCAL_LOGO", 1>>,
       <<146, "KCAL_B", 10>>, <<147, "KCAL_B_CA", 10>>, <<148, "KCAL_B_RA", 10>>,
       <<160, "DIST_PROGBAR", 11>>, <<161, "DIST_LOGO", 1>>, <<162, "DIST", 10>>,
       <<163, "DIST_CA", 10>>, <<164, "DIST_RA", 10>>, <<165, "DIST_KM", 1>>,
       <<166, "DIST_MI", 1>>, <<192, "BTLINK_UP", 1>>, <<193, "BTLINK_DOWN", 1>>,
       <<206, "BATT_IMG", 1>>, <<208, "BATT_IMG_B", 1>>, <<209, "BATT_IMG_C", 1>>,
       <<210, "BATT", 10>>, <<211, "BATT_CA", 10>>, <<212, "BATT_RA", 10>>,
       <<218, "BATT_IMG_D", 1>>, <<216, "WEATHER_TEMP_CA", 10>>, <<240, "SEPERATOR", 1>>,
       <<241, "HAND_HOUR", 1>>, <<242, "HAND_MINUTE", 1>>, <<243, "HAND_SEC", 1>>,
       <<244, "HAND_PIN_UPPER", 1>>, <<245, "HAND_PIN_LOWER", 1>>, <<246, "TAP_TO_CHANGE", 1>>,
       <<247, "ANIMATION", 1>>, <<248, "ANIMATION_F8", 1>> >>

\* Index into dataTypes (from 0) of the first entry of the type, or -1.
getDataTypeIdx(type) ==
    IF \E k \in 1..Len(dataTypes) : dataTypes[k][1] = type
    THEN (CHOOSE k \in 1..Len(dataTypes) :
             /\ dataTypes[k][1] = type
             /\ \A j \in 1..(k - 1) : dataTypes[j][1] # type) - 1
    ELSE -1

getDataTypeStr(type) ==
    IF getDataTypeIdx(type) >= 0 THEN dataTypes[getDataTypeIdx(type) + 1][2] ELSE "UNKNOWN"

\* h->faceData[fdi] as the loop of line 291 reads it: an entry of the array
\* and, past its 39 entries, the bytes of the FaceHeader that follow the
\* array (padding, offsets, sizes), then whatever follows the header in memory.
FaceDataIn(h, fdi, junk) ==
    IF fdi < 39 THEN h.faceData[fdi]
    ELSE LET B(k) == IF 5 + 10 * fdi + k < 1900
                     THEN HeaderByte(h, 5 + 10 * fdi + k) ELSE junk
         IN  [type |-> B(0), idx |-> B(1),
              x |-> B(2) + 256 * B(3), y |-> B(4) + 256 * B(5),
              w |-> B(6) + 256 * B(7), h |-> B(8) + 256 * B(9)]

\* count of the blobs the descriptor fdi owns, then the first descriptor
\* below dataCount whose blobs include offsetIndex; -1 if there is none.
BlobsOwned_StaticOnly(h, fdi, junk) ==
    LET typeIdx == getDataTypeIdx(FaceDataIn(h, fdi, junk).type)
    IN  IF typeIdx >= 0 THEN dataTypes[typeIdx + 1][3] ELSE 1
BlobsOwned(h, fdi, junk) ==
    LET type == FaceDataIn(h, fdi, junk).type
        typeIdx == getDataTypeIdx(type)
    IN  IF typeIdx >= 0
        THEN IF type >= 246 /\ type <= 248 THEN h.animationFrames
             ELSE dataTypes[typeIdx + 1][3]
        ELSE 1

Owns(h, fdi, offsetIndex, junk) ==
    /\ offsetIndex >= FaceDataIn(h, fdi, junk).idx
    /\ offsetIndex < FaceDataIn(h, fdi, junk).idx + BlobsOwned(h, fdi, junk)

getFaceDataIndexFromOffsetIndex(offsetIndex, h, junk) ==
    LET last == h.dataCount - 1
    IN  IF \E fdi \in 0..last : Owns(h, fdi, offsetIndex, junk)
        THEN CHOOSE fdi \in 0..last :
                /\ Owns(h, fdi, offsetIndex, junk)
                /\ \A j \in 0..(fdi - 1) : ~Owns(h, j, offsetIndex, junk)
        ELSE -1

\* The highest index fdi at which the loop reads h->faceData[fdi], -1 if it
\* reads none; found is what the function returns.
LastLooked(h, found) == IF found # -1 THEN found ELSE h.dataCount - 1

----------------------------------------------------------------------------
(* watchface.txt: printing (dawft.c) and reading (strutil.c)                *)

\* A line is a sequence of characters; a word that is never read digit by
\* digit (a keyword, a type name) is held as one printable item.
HexChars == <<"0", "1", "2", "3", "4", "5", "6", "7", "8", "9",
              "a", "b", "c", "d", "e", "f">>
UpperHex == <<"A", "B", "C", "D", "E", "F">>

RECURSIVE Digits(_, _)
Digits(n, base) ==
    IF n < base THEN <<HexChars[n + 1]>>
    ELSE Digits(n \div base, base) \o <<HexChars[(n % base) + 1]>>

\* The decimal digits of a u32.
DigitsU32(v) ==
    IF v >= 0 THEN Digits(v, 10)
    ELSE LET q == (v + 2147483647) + 1
         IN  Digits((q \div 10) + 214748364 + ((q % 10) + 8) \div 10, 10)
                \o <<HexChars[(((q % 10) + 8) % 10) + 1]>>

Sp(n) == [k \in 1..n |-> " "]
PadLeft(s, width, c) == [k \in 1..(width - Len(s)) |-> c] \o s

Fmt_u(n) == Digits(n, 10)                               \* %u
Fmt_4u(n) == PadLeft(Digits(n, 10), 4, " ")             \* %4u
Fmt_04u(n) == PadLeft(Digits(n, 10), 4, "0")            \* %04u
Fmt_8u(v) == PadLeft(DigitsU32(v), 8, " ")              \* %8u
Fmt_8i(n) ==                                            \* %8i
    PadLeft(IF n < 0 THEN <<"-">> \o Digits(-n, 10) ELSE Digits(n, 10), 8, " ")
Fmt_0x02x(n) == <<"0", "x">> \o PadLeft(Digits(n, 16), 2, "0")     \* 0x%02x

ImgCompressionStr ==
    <<"NONE", "RLE_LINE", "RLE_BASIC", "RESERVED", "RESERVED", "RESERVED",
      "RESERVED", "TRY_RLE">>

\* The lines main appends to watchFaceStr.
LineFileType(ft) == <<"fileType">> \o Sp(8) \o <<ft>>
LineFileID(id) == <<"fileID">> \o Sp(10) \o Fmt_0x02x(id)
LineDataCount(n) == <<"dataCount">> \o Sp(7) \o Fmt_u(n)
LineBlobCount(n) == <<"blobCount">> \o Sp(7) \o Fmt_u(n)
LineFaceNumber(n) == <<"faceNumber">> \o Sp(6) \o Fmt_u(n)
LineAnimationFrames(n) == <<"animationFrames">> \o Sp(1) \o Fmt_u(n)
LineFaceData(fd) ==
    <<"faceData">> \o Sp(8) \o Fmt_0x02x(fd.type) \o Sp(2) \o Fmt_04u(fd.idx) \o Sp(2)
        \o <<getDataTypeStr(fd.type)>> \o Sp(1) \o Fmt_4u(fd.x) \o Sp(1) \o Fmt_4u(fd.y)
        \o Sp(1) \o Fmt_4u(fd.w) \o Sp(1) \o Fmt_4u(fd.h)
LineBlobCompression(i, ic, offset, estSize) ==
    <<"blobCompression">> \o Sp(1) \o Fmt_04u(i) \o Sp(2) \o <<ImgCompressionStr[ic + 1]>>
        \o Sp(2) \o Fmt_8u(offset) \o Sp(2) \o Fmt_8i(estSize)

\* getTokensIdx: the tokens of a line, each from its first character to
\* the blank that ends it; at most 10 are found.
RECURSIVE Tokens(_, _, _, _)
Tokens(s, i, wasSpace, toks) ==
    IF i > Len(s) THEN toks
    ELSE IF s[i] = " " \/ s[i] = "\t" THEN Tokens(s, i + 1, TRUE, toks)
    ELSE IF wasSpace
         THEN IF Len(toks) = 10 THEN toks
              ELSE Tokens(s, i + 1, FALSE, Append(toks, <<s[i]>>))
         ELSE Tokens(s, i + 1, FALSE, [toks EXCEPT ![Len(toks)] = Append(@, s[i])])

getTokensIdx(s) == Tokens(s, 1, TRUE, <<>>)

IsDigit(c, base) == \E k \in 1..base : HexChars[k] = c
DigitValue(c) ==
    IF \E k \in 1..6 : UpperHex[k] = c THEN 9 + (CHOOSE k \in 1..6 : UpperHex[k] = c)
    ELSE (CHOOSE k \in 1..16 : HexChars[k] = c) - 1
IsHexDigit(c) == IsDigit(c, 16) \/ \E k \in 1..6 : UpperHex[k] = c

\* The digits readNum reads from position i on, at most to position last,
\* stopping at the first character that is not a digit.
RECURSIVE ReadDigits(_, _, _, _, _)
ReadDigits(s, i, last, base, total) ==
    IF i > last \/ i > Len(s) THEN total
    ELSE IF base = 16 /\ IsHexDigit(s[i])
         THEN ReadDigits(s, i + 1, last, base, total * 16 + DigitValue(s[i]))
    ELSE IF base = 10 /\ IsDigit(s[i], 10)
         THEN ReadDigits(s, i + 1, last, base, total * 10 + DigitValue(s[i]))
    ELSE total

readNum_DecimalOnly(s) == ReadDigits(s, 1, 10, 10, 0)
readNum(s) ==
    IF Len(s) >= 2 /\ s[1] = "0" /\ s[2] = "x"
    THEN ReadDigits(s, 3, 10, 16, 0)
    ELSE ReadDigits(s, 1, 10, 10, 0)

----------------------------------------------------------------------------
(* main, info and dump modes (dawft.c)                                     *)

U32Ge(v, n) == v < 0 \/ v >= n

\* fileSize - fileOffset as a size_t, when fileOffset is past the end.
HugeSize == 2147483647

TooShort_Never(size) == FALSE
TooShort(size) == size < MinHeaderSize

HeaderSizeOf(ft) == IF ft = "A" THEN MinHeaderSize ELSE FaceHeaderSize

Exit(code) ==
    /\ pc' = "exit"
    /\ exitCode' = code

\* The mode argument, the options, newBytesFromFile and the size check.
Open ==
    /\ pc = "open"
    /\ args.mode # "CREATE"
    /\ IF args.mode = "HELP" THEN Exit(0)
       ELSE IF ~inFile.readable THEN Exit(1)
       ELSE IF TooShort(inFile.size) THEN Exit(1)
       ELSE pc' = "identify" /\ UNCHANGED exitCode
    /\ UNCHANGED <<pixVars, rleVars, impVars, detVars, args, inFile, fileType, maxRead,
                   hdr, manifest, blobIdx, folder, visited, probe, created>>

\* The fileID check, the detection of the type and the header size check.
Identify ==
    /\ pc = "identify"
    /\ LET ft == IF args.fileType = "" THEN autodetectFileType(DetectView(inFile))
                 ELSE args.fileType
       IN  /\ fileType' = ft
           /\ maxRead' = IF args.fileType = "" THEN DetectLastRead ELSE 0
           /\ IF inFile.size < HeaderSizeOf(ft) THEN Exit(1)
              ELSE pc' = "parse" /\ UNCHANGED exitCode
    /\ UNCHANGED <<pixVars, rleVars, impVars, detVars, args, inFile,
                   hdr, manifest, blobIdx, folder, visited, probe, created>>

\* ---- the header lines and the scan of the offsets ----

Printed(h, i) == h.faceData[i].type # 0 \/ i = 0

RECURSIVE FaceDataLines(_, _, _)
FaceDataLines(h, lo, hi) ==
    IF lo = hi THEN (IF Printed(h, lo) THEN <<LineFaceData(h.faceData[lo])>> ELSE <<>>)
    ELSE LET mid == (lo + hi) \div 2
         IN  FaceDataLines(h, lo, mid) \o FaceDataLines(h, mid + 1, hi)

\* xfi.animationFrames after the loop over faceData.
AnimationFrames(h, ft) ==
    IF \E i \in 0..38 : Printed(h, i) /\ h.faceData[i].type >= 246 /\ h.faceData[i].type <= 248
    THEN (IF ft = "A" THEN h.sizes[200] ELSE h.sizes[0])
    ELSE 0

Populated250(h, i) == h.offsets[i] # 0 \/ i = 0

\* The entry at which fail is set, -1 if none is.
FailAt_Never(h, ft, size) == -1
FailAt(h, ft, size) ==
    LET bad == { i \in 0..249 : Populated250(h, i) /\ U32Ge(h.offsets[i], size) /\ ft # "B" }
    IN  IF bad = {} THEN -1 ELSE CHOOSE i \in bad : \A j \in bad : i <= j

\* Whether the two bytes at headerSize + offsets[i] are inside the file.
BlobInFile(f, at) == at >= 0 /\ at + 1 < f.size

\* isRLE of blob i; guess is what a read outside the file gives.
BlobIsRLE(f, at, guess) ==
    IF BlobInFile(f, at) THEN get_u16(Bytes2(f, at), 0) = RLE_ID ELSE guess

EstSize(h, ft, size, i) ==
    IF i < 249 /\ h.offsets[i + 1] # 0
    THEN h.offsets[i + 1] - h.offsets[i]
    ELSE size - HeaderSizeOf(ft) - h.offsets[i]

\* Entry i goes through the else branch of the scan; fa is FailAt.
Scanned(h, fa, i) == Populated250(h, i) /\ i # fa

BlobLine(f, h, ft, i, guess) ==
    LET isRLE == BlobIsRLE(f, U32Add(h.offsets[i], HeaderSizeOf(ft)), guess)
        ic == IF isRLE THEN (IF ft = "C" THEN RLE_LINE ELSE RLE_BASIC) ELSE NONE
    IN  LineBlobCompression(i, ic, h.offsets[i], EstSize(h, ft, f.size, i))

RECURSIVE BlobLines(_, _, _, _, _, _, _)
BlobLines(f, h, ft, fa, guess, lo, hi) ==
    IF lo = hi
    THEN (IF Scanned(h, fa, lo) THEN <<BlobLine(f, h, ft, lo, guess)>> ELSE <<>>)
    ELSE LET mid == (lo + hi) \div 2
         IN  BlobLines(f, h, ft, fa, guess, lo, mid)
                \o BlobLines(f, h, ft, fa, guess, mid + 1, hi)

\* Whether the scan reads outside the file.
ScanReadsOutside(f, h, ft, fa) ==
    \E i \in 0..249 :
        /\ Scanned(h, fa, i)
        /\ ~BlobInFile(f, U32Add(h.offsets[i], HeaderSizeOf(ft)))

\* xfi.animationFrames and blobEstSize[], kept with the header.
Scan(h0, ft, size, fa) ==
    [k \in DOMAIN h0 \cup {"animationFrames", "blobEstSize"} |->
        IF k = "animationFrames" THEN AnimationFrames(h0, ft)
        ELSE IF k = "blobEstSize"
             THEN [i \in 0..249 |-> IF Scanned(h0, fa, i) THEN EstSize(h0, ft, size, i) ELSE 0]
        ELSE h0[k]]

\* setHeader, the lines of watchFaceStr, the scan of the offset table.
Parse ==
    /\ pc = "parse"
    /\ \E h0 \in {setHeader(inFile, fileType)} :
       \E fa \in {FailAt(h0, fileType, inFile.size)} :
       \E h \in {Scan(h0, fileType, inFile.size, fa)} :
           /\ hdr' = h
           /\ maxRead' = HeaderLastRead(fileType)
           /\ \E guess \in BOOLEAN :
                 /\ guess => ScanReadsOutside(inFile, h0, fileType, fa)
                 /\ manifest' =
                       <<LineFileType(fileType), LineFileID(Byte(inFile, 0)),
                         LineDataCount(h.dataCount), LineBlobCount(h.blobCount),
                         LineFaceNumber(h.faceNumber)>>
                       \o FaceDataLines(h, 0, 38)
                       \o (IF h.animationFrames # 0
                           THEN <<LineAnimationFrames(h.animationFrames)>> ELSE <<>>)
                       \o BlobLines(inFile, h, fileType, fa, guess, 0, 249)
           /\ IF fa # -1 THEN Exit(1)
              ELSE IF args.mode # "DUMP" THEN Exit(0)
              ELSE pc' = "startdump" /\ UNCHANGED exitCode
    /\ UNCHANGED <<pixVars, rleVars, impVars, detVars, args, inFile, fileType,
                   blobIdx, folder, visited, probe, created>>

\* ---- the dump loop ----

MaxFaults == 1      \* file operations that fail in one run

\* What fopen and fwrite may do to watchface.txt and to a .raw file.
FileIOs == {"ok", "nopen", "wfail"}

\* The bytes that exist from &fileData[at] on, and fileSize - at as a size_t.
Src(f, at) ==
    IF at < 0 \/ at >= f.size THEN <<>>
    ELSE [k \in 1..(f.size - at) |-> Byte(f, at + k - 1)]
SrcSize(f, at) == IF at >= 0 /\ at <= f.size THEN f.size - at ELSE HugeSize

\* The check of the mode and of type B, the folder and watchface.txt.
StartDump ==
    /\ pc = "startdump"
    /\ IF fileType = "B" THEN Exit(1) /\ UNCHANGED folder
       ELSE \E io \in FileIOs :
               IF io # "ok" THEN Exit(1) /\ UNCHANGED folder
               ELSE /\ folder' = [folder EXCEPT !.txt = manifest]
                    /\ pc' = "blob"
                    /\ UNCHANGED exitCode
    /\ UNCHANGED <<pixVars, rleVars, impVars, detVars, args, inFile, fileType, maxRead,
                   hdr, manifest, blobIdx, visited, probe, created>>

\* The file a dumpBMP16 call leaves in the folder, NoFile when it leaves none.
BmpLeft(d, w, h) ==
    IF d.called /\ d.file \in {"complete", "open"}
    THEN BmpFile(setBMPHeaderV4(w, h, 16), Flatten(d.rows))
    ELSE NoFile

\* dumpBlob(fileName, srcData, length): the value returned and the file left.
dumpBlob(src, junk, length, io) ==
    IF io = "nopen" THEN [called |-> TRUE, ret |-> 1, left |-> FALSE, data |-> <<>>]
    ELSE IF io = "wfail" THEN [called |-> TRUE, ret |-> 2, left |-> FALSE, data |-> <<>>]
    ELSE [called |-> TRUE, ret |-> 0, left |-> TRUE,
          data |-> [k \in 1..length |-> Rd(src, junk, k - 1)]]

NotDumped == [called |-> FALSE, ret |-> 0, left |-> FALSE, data |-> <<>>]

\* size of the raw dump of blob i, 0 when there is none to make.
RawSize_SizesFirst(h, i, fileOffset, fileSize) ==
    LET size == IF h.sizes[i] # 0 THEN h.sizes[i]
                ELSE IF h.blobEstSize[i] >= 0 THEN h.blobEstSize[i] ELSE 0
    IN  IF size = 0 THEN 0
        ELSE IF fileOffset < 0 \/ fileOffset + size > fileSize THEN 0
        ELSE size
RawSize(h, i, fileOffset, fileSize) ==
    LET size == IF h.blobEstSize[i] >= 0 THEN h.blobEstSize[i] ELSE h.sizes[i]
    IN  IF size = 0 THEN 0
        ELSE IF fileOffset < 0 \/ fileOffset + size > fileSize THEN 0
        ELSE size

\* The index the loop goes on with after blob i.
NextBlob_StopOnFailure(i, bmpRet, rawRet, blobCount) ==
    IF bmpRet # 0 \/ rawRet # 0 THEN blobCount ELSE i + 1
NextBlob(i, bmpRet, rawRet, blobCount) == i + 1

\* The header after h->faceData[fdi].w = 240 and .h = 24 are stored in an
\* entry past the 39 of the array: the four bytes land in the offsets or
\* the sizes of the header, or past the header.
Poked(h, fdi) ==
    LET base == 5 + 10 * fdi + 6
        B(p) == IF p >= base /\ p < base + 4 THEN <<240, 0, 24, 0>>[p - base + 1]
                ELSE HeaderByte(h, p)
    IN  [h EXCEPT
           !.offsets = [k \in 0..249 |->
                          get_u32(<<B(400 + 4 * k), B(401 + 4 * k),
                                    B(402 + 4 * k), B(403 + 4 * k)>>)],
           !.sizes = [k \in 0..249 |-> B(1400 + 2 * k) + 256 * B(1401 + 2 * k)]]

\* The header after the override of line 972.
Overridden(h, fdi, ft, junk) ==
    IF fdi # -1 /\ FaceDataIn(h, fdi, junk).type = 0 /\ ft = "A"
       /\ (FaceDataIn(h, fdi, junk).w # 240 \/ FaceDataIn(h, fdi, junk).h # 24)
    THEN IF fdi < 39 THEN [h EXCEPT !.faceData[fdi].w = 240, !.faceData[fdi].h = 24]
         ELSE Poked(h, fdi)
    ELSE h

\* What the environment may do to the files of one blob: fopen of the
\* bitmap fails, its first row write fails, fopen of the .raw file fails,
\* its write fails, or nothing fails.
DumpIO(openOk, wfail, raw) == [openOk |-> openOk, wfail |-> wfail, raw |-> raw]
NoFault == DumpIO(TRUE, -1, "ok")
DumpIOs == { NoFault, DumpIO(FALSE, -1, "ok"), DumpIO(TRUE, 1, "ok"),
             DumpIO(TRUE, -1, "nopen"), DumpIO(TRUE, -1, "wfail") }

\* File operations that have failed so far in the run.
Faults(v) == Cardinality({ k \in 1..Len(v) : v[k].fault })

\* Whether the search for the owner of blob i reads past the FaceHeader.
PastHeader(h, i) ==
    /\ h.dataCount >= 190
    /\ getFaceDataIndexFromOffsetIndex(i, [h EXCEPT !.dataCount = 189], 0) = -1

\* What one pass of the loop read and called: the blob, its place in the
\* file, the descriptor found and the last one looked at, and the width and
\* height dumpBMP16 was called with.
Probe(i, at, size, fdi, looked, bmp, w, h) ==
    [called |-> TRUE, idx |-> i, at |-> at, size |-> size, fdi |-> fdi,
     looked |-> looked, bmp |-> bmp, w |-> w, h |-> h]

\* One pass of for(int i=0; i<h->blobCount; i++).
DumpBlobStep ==
    /\ pc = "blob"
    /\ blobIdx < hdr.blobCount
    /\ \E mem \in (IF PastHeader(hdr, blobIdx) THEN JunkBytes ELSE {0}) :
       \E fdi \in {getFaceDataIndexFromOffsetIndex(blobIdx, hdr, mem)} :
       \E h2 \in {Overridden(hdr, fdi, fileType, mem)} :
       LET i == blobIdx
           fileOffset == U32Add(hdr.offsets[i], HeaderSizeOf(fileType))
           asBmp == fdi # -1 \/ i = hdr.blobCount - 1
           w == IF fdi # -1 THEN FaceDataIn(h2, fdi, mem).w ELSE 140
           h == IF fdi # -1 THEN FaceDataIn(h2, fdi, mem).h ELSE 163
           src == Src(inFile, fileOffset)
           outside == fileOffset < 0 \/ fileOffset + 1 >= inFile.size
           rawLen == IF args.raw \/ ~asBmp
                     THEN RawSize(hdr, i, fileOffset, inFile.size) ELSE 0
           d(io, junk) == IF asBmp
                          THEN dumpBMP16(src, junk, SrcSize(inFile, fileOffset), w, h,
                                         fileType = "A", io.openOk, io.wfail)
                          ELSE NoDump
           Went(io, dd, junk, crash) ==
              LET r == IF rawLen > 0 THEN dumpBlob(src, junk, rawLen, io.raw) ELSE NotDumped
                  left == BmpLeft(dd, w, h)
                  bmpRet == IF asBmp THEN dd.ret ELSE 0
              IN  /\ hdr' = h2
                  /\ probe' = Probe(i, fileOffset, inFile.size, fdi, LastLooked(hdr, fdi),
                                    asBmp, w, h)
                  /\ IF crash \/ (asBmp /\ dd.ret = -2)
                     THEN /\ pc' = "crashed"
                          /\ UNCHANGED <<blobIdx, visited, folder>>
                     ELSE /\ pc' = pc
                          /\ blobIdx' = NextBlob(i, bmpRet, r.ret, hdr.blobCount)
                          /\ visited' = Append(visited,
                                               [idx |-> i, bmp |-> bmpRet, raw |-> r.ret,
                                                fault |-> io # NoFault])
                          /\ folder' = [folder EXCEPT
                                          !.bmp = IF left = NoFile THEN @ ELSE (i :> left) @@ @,
                                          !.raw = IF r.left THEN (i :> r.data) @@ @ ELSE @]
       IN  \E io \in DumpIOs :
              /\ io = NoFault \/ Faults(visited) < MaxFaults
              /\ (io.openOk /\ io.wfail = -1) \/ asBmp
              /\ io.raw = "ok" \/ rawLen > 0
              /\ LET d0 == d(io, 0)
                 IN  \* junk only matters to a step that reads outside the file
                     \* or past the header, and only such a step may end the run
                     IF outside \/ (asBmp /\ d0.ub) \/ PastHeader(hdr, i)
                     THEN \E junk \in JunkBytes, crash \in BOOLEAN :
                             Went(io, d(io, junk), junk, crash)
                     ELSE Went(io, d0, 0, FALSE)
    /\ UNCHANGED <<pixVars, rleVars, impVars, detVars, args, inFile, fileType, maxRead,
                   manifest, exitCode, created>>

\* The loop is over: deleteBytes and return 0.
Finish ==
    /\ pc = "blob"
    /\ blobIdx >= hdr.blobCount
    /\ Exit(0)
    /\ UNCHANGED <<pixVars, rleVars, impVars, detVars, args, inFile, fileType, maxRead,
                   hdr, manifest, blobIdx, folder, visited, probe, created>>

----------------------------------------------------------------------------
(* createBin (dawft.c)                                                      *)

\* h, efi and blobCompression before the first line is read.
CreateStart ==
    [ fileType |-> "", animationFrames |-> 0, h |-> ZeroHeader,
      blobCompression |-> [k \in 0..249 |-> IF k = 0 THEN TRY_RLE ELSE NONE] ]

\* The ImgCompression a blobCompression line names, -1 if it names none.
CompressionNamed(word) ==
    IF word = "NONE" THEN NONE
    ELSE IF word = "RLE_LINE" THEN RLE_LINE
    ELSE IF word = "RLE_BASIC" THEN RLE_BASIC
    ELSE IF word = "TRY_RLE" THEN TRY_RLE
    ELSE -1

\* One pass of the while(1) loop over the lines of watchface.txt.
ParseLine(st, line) ==
    LET tok == getTokensIdx(line)
        key == tok[1][1]
        num(k) == readNum(tok[k])
    IN  IF line = <<>> THEN st
        ELSE IF line[1] = "#" THEN st
        ELSE IF Len(tok) < 2 THEN st
        ELSE IF key = "fileType" THEN [st EXCEPT !.fileType = tok[2][1]]
        ELSE IF key = "fileID" THEN [st EXCEPT !.h.fileID = U8(num(2))]
        ELSE IF key = "faceNumber" THEN [st EXCEPT !.h.faceNumber = U16(num(2))]
        ELSE IF key = "dataCount" THEN st
        ELSE IF key = "blobCount" THEN [st EXCEPT !.h.blobCount = U8(num(2))]
        ELSE IF key = "animationFrames" THEN [st EXCEPT !.animationFrames = U16(num(2))]
        ELSE IF key = "blobCompression" THEN
            IF Len(tok) >= 3 /\ CompressionNamed(tok[3][1]) # -1
            THEN [st EXCEPT !.blobCompression[U8(num(2))] = CompressionNamed(tok[3][1])]
            ELSE st
        ELSE IF key = "faceData" THEN
            IF Len(tok) < 8 THEN st
            ELSE [st EXCEPT
                    !.h.faceData[st.h.dataCount] =
                        [type |-> U8(num(2)), idx |-> U8(num(3)),
                         x |-> U16(num(5)), y |-> U16(num(6)),
                         w |-> U16(num(7)), h |-> U16(num(8))],
                    !.h.dataCount = st.h.dataCount + 1]
        ELSE st

RECURSIVE ParseLines(_, _, _)
ParseLines(lines, k, st) ==
    IF k > Len(lines) THEN st ELSE ParseLines(lines, k + 1, ParseLine(st, lines[k]))

\* What fopen and fwrite may do to the output file: fopen fails, the write
\* of blob failBlob fails, the write of the header fails.
CreateIO(openOk, failBlob, failHeader) ==
    [openOk |-> openOk, failBlob |-> failBlob, failHeader |-> failHeader]

NoCreateFault == CreateIO(TRUE, -1, FALSE)

\* What a createBin call leaves: the value returned, what made it return
\* ("" for the end of the function), the state of the output file, the
\* file, the blobs given up, and whether a read went past a file.
Created(r, why, out, file, skipped, ub) ==
    [called |-> TRUE, ret |-> r, why |-> why, out |-> out, file |-> file,
     skipped |-> skipped, ub |-> ub]

\* if(rawBytes == NULL): the blob is given up and the loop goes on.
GivenUp_Fatal(rest, stop) == stop
GivenUp(rest, stop) == rest

\* The bytes of the output file: the header at 0, the blobs after it.
OutFile(h, data) ==
    BinFile(FaceHeaderSize + Len(data),
            [p \in 0..(FaceHeaderSize + Len(data) - 1) |->
                IF p < FaceHeaderSize THEN HeaderByte(h, p)
                ELSE data[p - FaceHeaderSize + 1]])

\* What blob i of the folder gives: the bytes to write, or that it is given
\* up (neither file loads), or the value compressImg fails with.  imp is what
\* newImgFromFile returns for NNNN.bmp, c what compressImg makes of it.
Source(given, fail, data, ub) == [given |-> given, fail |-> fail, data |-> data, ub |-> ub]

FromImage(ic, imp, c) ==
    IF ic # NONE THEN Source(FALSE, c.ret, c.img.data, imp.ub)
    ELSE Source(FALSE, 0, imp.img.data, imp.ub)

FromImport(fold, i, ic, imp) ==
    IF imp.img.null
    THEN IF i \in DOMAIN fold.raw
         THEN Source(FALSE, 0, fold.raw[i], imp.ub)
         ELSE Source(TRUE, 0, <<>>, imp.ub)
    ELSE FromImage(ic, imp, compressImg(imp.img))

BlobSource(fold, i, ic, junk) ==
    FromImport(fold, i, ic,
               newImgFromFile(IF i \in DOMAIN fold.bmp THEN fold.bmp[i] ELSE NoFile,
                              NullImg, 0, 0, junk, TRUE))

\* for(int i=0; i<h.blobCount; i++) from blob i on, then the header; b is
\* the source of blob i.
RECURSIVE CreateBlobs(_, _, _, _, _, _, _, _)
CreateBlob(fold, st, io, junk, i, data, skipped, ub, b) ==
    IF b.given
    THEN GivenUp(CreateBlobs(fold, [st EXCEPT !.h.offsets[i] = Len(data)], io, junk, i + 1,
                             data, skipped \cup {i}, ub \/ b.ub),
                 Created(1, "source", "removed", NoBin, skipped \cup {i}, ub \/ b.ub))
    ELSE IF b.fail # 0
    THEN Created(1, "compressImg", "removed", NoBin, skipped, ub \/ b.ub)
    ELSE IF io.failBlob = i
    THEN Created(1, "fwrite", "removed", NoBin, skipped, ub \/ b.ub)
    ELSE CreateBlobs(fold, [st EXCEPT !.h.offsets[i] = Len(data)], io, junk, i + 1,
                     data \o b.data, skipped, ub \/ b.ub)

CreateBlobs(fold, st, io, junk, i, data, skipped, ub) ==
    IF i >= st.h.blobCount THEN
        IF io.failHeader THEN Created(1, "fwrite", "removed", NoBin, skipped, ub)
        ELSE Created(0, "", "complete", OutFile(st.h, data), skipped, ub)
    ELSE CreateBlob(fold, st, io, junk, i, data, skipped, ub,
                    BlobSource(fold, i, st.blobCompression[i], junk))

\* The sanity checks, fopen of the output file, the blobs and the header.
CreateFrom_OpenFirst(fold, st, io, junk) ==
    IF ~io.openOk THEN Created(1, "fopen", "none", NoBin, {}, FALSE)
    ELSE IF st.fileType # "C" THEN Created(1, "fileType", "open", NoBin, {}, FALSE)
    ELSE IF st.h.dataCount < 1 THEN Created(1, "dataCount", "open", NoBin, {}, FALSE)
    ELSE IF st.h.blobCount < 1 THEN Created(1, "blobCount", "open", NoBin, {}, FALSE)
    ELSE CreateBlobs(fold, st, io, junk, 0, <<>>, {}, FALSE)
CreateFrom(fold, st, io, junk) ==
    IF st.fileType # "C" THEN Created(1, "fileType", "none", NoBin, {}, FALSE)
    ELSE IF st.h.dataCount < 1 THEN Created(1, "dataCount", "none", NoBin, {}, FALSE)
    ELSE IF st.h.blobCount < 1 THEN Created(1, "blobCount", "none", NoBin, {}, FALSE)
    ELSE IF ~io.openOk THEN Created(1, "fopen", "none", NoBin, {}, FALSE)
    ELSE CreateBlobs(fold, st, io, junk, 0, <<>>, {}, FALSE)

\* The lines read, then sizes[0] set from animationFrames.
Parsed(p) == [p EXCEPT !.h.sizes[0] = p.animationFrames]

\* createBin(srcFolder, outputFileName).  newImgFromFile is called with the
\* file name alone: there is no background to blend with.
createBin(fold, io, junk) ==
    IF fold.txt = <<>> THEN Created(1, "fopen", "none", NoBin, {}, FALSE)
    ELSE CreateFrom(fold, Parsed(ParseLines(fold.txt, 1, CreateStart)), io, junk)

\* Every bitmap of the folder holds the rows its header declares: none was
\* left open by a dumpBMP16 call that returned early.
WholeBitmaps(fold) ==
    \A i \in DOMAIN fold.bmp :
        fold.bmp[i].size >= fold.bmp[i].h.offset + fold.bmp[i].h.imageDataSize

\* A run of create on the folder a run of dump left.  No read of a whole
\* bitmap goes past its end, so no junk byte is ever read.
Create ==
    /\ pc \in {"exit", "crashed"}
    /\ ~created.called
    /\ WholeBitmaps(folder)
    /\ \E io \in { NoCreateFault, CreateIO(FALSE, -1, FALSE),
                   CreateIO(TRUE, 0, FALSE), CreateIO(TRUE, 1, FALSE),
                   CreateIO(TRUE, -1, TRUE) } :
          /\ io = NoCreateFault \/ Faults(visited) < MaxFaults
          /\ created' = createBin(folder, io, 0)
    /\ UNCHANGED <<pixVars, rleVars, impVars, detVars, args, inFile, pc, fileType, maxRead,
                   hdr, manifest, blobIdx, folder, visited, probe, exitCode>>

\* The files createBin may fail to open or to write.
CreateIOs ==
    { NoCreateFault, CreateIO(FALSE, -1, FALSE), CreateIO(TRUE, 0, FALSE),
      CreateIO(TRUE, -1, TRUE) }

\* main in create mode: return createBin(folderName, fileName).
CreateMode ==
    /\ pc = "open"
    /\ args.mode = "CREATE"
    /\ \E io \in CreateIOs :
          \E c \in {createBin(folder, io, 0)} :
              /\ created' = c
              /\ Exit(c.ret)
    /\ UNCHANGED <<pixVars, rleVars, impVars, detVars, args, inFile, fileType, maxRead,
                   hdr, manifest, blobIdx, folder, visited, probe>>

----------------------------------------------------------------------------
(* The files the tool specification starts from                            *)

MaxBlobs == 2       \* blobs of a plain container
MaxDim   == 2       \* widths and heights 1..MaxDim of their images

\* Pixels as they lie in a blob; <<8, 33>> is the RLE identifier.
BlobPixels == << <<0, 4>>, <<8, 33>>, <<255, 255>>, <<18, 52>> >>

Blob(w, h, s) == Flatten(Cycle(BlobPixels, w * h, s))

Desc(type, idx, w, h) ==
    [type |-> type, idx |-> idx, x |-> 10 + idx, y |-> 300, w |-> w, h |-> h]

\* The offset of each blob when they follow one another from 0.
Starts(blobs) == [j \in 1..Len(blobs) |-> Len(Flatten(SubSeq(blobs, 1, j - 1)))]

MkHeader(descs, offs, dataCount, blobCount) ==
    [ZeroHeader EXCEPT
        !.fileID = 129, !.dataCount = dataCount, !.blobCount = blobCount,
        !.faceNumber = 1000 + blobCount,
        !.faceData = [k \in 0..38 |-> IF k < Len(descs) THEN descs[k + 1] ELSE ZeroFaceData],
        !.offsets = [k \in 0..249 |-> IF k < Len(offs) THEN offs[k + 1] ELSE 0]]

\* BACKGROUND, TIME_AM and a type dataTypes does not list: one blob each.
DescTypes == <<1, 69, 2>>

\* n blobs, each with its descriptor; blob j is an image of
\* (w + j) x (h + j) pixels, sizes taken round 1..MaxDim.
PlainBlobs(n, w, h, s) ==
    [j \in 1..n |-> Blob(((w + j - 2) % MaxDim) + 1, ((h + j - 2) % MaxDim) + 1,
                         s + 2 * (j - 1))]
PlainDescs(n, w, h) ==
    [j \in 1..n |-> Desc(DescTypes[((j - 1) % 3) + 1], j - 1,
                         ((w + j - 2) % MaxDim) + 1, ((h + j - 2) % MaxDim) + 1)]
Plain(n, w, h, s) ==
    OutFile(MkHeader(PlainDescs(n, w, h), Starts(PlainBlobs(n, w, h, s)), n, n),
            Flatten(PlainBlobs(n, w, h, s)))

PlainFiles ==
    { Plain(n, w, MaxDim + 1 - w, s) : n \in 1..MaxBlobs, w \in 1..MaxDim, s \in 0..1 }

\* Two blobs of 1 x 1 and 2 x 1 pixels, and what may be unusual about them.
B1 == Blob(1, 1, 0)
B2 == Blob(2, 1, 2)
D1 == Desc(1, 0, 1, 1)
D2 == Desc(69, 1, 2, 1)
RleBlob == compressImg(NewImg(4, 1, Run(<<248, 31>>, 4))).img.data

OddFiles ==
    { \* dataCount does not count the descriptors
      OutFile(MkHeader(<<D1, D2>>, <<0, 2>>, 3, 2), B1 \o B2),
      \* a descriptor after dataCount
      OutFile(MkHeader(<<D1, D2>>, <<0, 2>>, 1, 2), B1 \o B2),
      \* two bytes between the blobs
      OutFile(MkHeader(<<D1, D2>>, <<0, 4>>, 2, 2), B1 \o <<0, 0>> \o B2),
      \* the blobs in the other order
      OutFile(MkHeader(<<D1, D2>>, <<4, 0>>, 2, 2), B2 \o B1),
      \* bytes after the last blob
      OutFile(MkHeader(<<D1, D2>>, <<0, 2>>, 2, 2), B1 \o B2 \o <<7, 7>>),
      \* a descriptor of type 0 that is not the first
      OutFile(MkHeader(<<D1, Desc(0, 1, 2, 1)>>, <<0, 2>>, 2, 2), B1 \o B2),
      \* one descriptor that owns both blobs (TIME_H1)
      OutFile(MkHeader(<<Desc(64, 0, 1, 1)>>, <<0, 2>>, 1, 2), B1 \o B1),
      \* an animation of two frames, counted in sizes[0]
      OutFile([MkHeader(<<Desc(247, 0, 1, 1)>>, <<0, 2>>, 1, 2) EXCEPT !.sizes[0] = 2],
              B1 \o B1),
      \* an image wider than the row buffer, one of height 0, one of width 0
      OutFile(MkHeader(<<Desc(1, 0, 5000, 1), D2>>, <<0, 2>>, 2, 2), B1 \o B2),
      OutFile(MkHeader(<<D1, Desc(69, 1, 2, 0)>>, <<0, 2>>, 2, 2), B1 \o B2),
      OutFile(MkHeader(<<Desc(1, 0, 0, 1), D2>>, <<0, 2>>, 2, 2), B1 \o B2),
      \* a blob no descriptor owns: the last one, one in the middle
      OutFile(MkHeader(<<D1>>, <<0, 2>>, 1, 2), B1 \o B2),
      OutFile(MkHeader(<<D1, Desc(69, 2, 2, 1)>>, <<0, 2, 4>>, 2, 3), B1 \o B1 \o B2),
      \* an offset at the end of the file, one past it, one near 2^32
      OutFile(MkHeader(<<D1, D2>>, <<0, 1901>>, 2, 2), B1),
      OutFile(MkHeader(<<D1, D2>>, <<0, 1903>>, 2, 2), B1),
      OutFile(MkHeader(<<D1, D2>>, <<0, -1900>>, 2, 2), B1),
      \* advisory sizes that are not the lengths of the blobs
      OutFile([MkHeader(<<D1, D2>>, <<0, 2>>, 2, 2) EXCEPT !.sizes[0] = 4, !.sizes[1] = 2],
              B1 \o B2),
      \* offsets that decrease, with an advisory size for the first blob
      OutFile([MkHeader(<<D1, D2>>, <<4, 2>>, 2, 2) EXCEPT !.sizes[0] = 2],
              <<0, 0>> \o B2),
      \* no blobs, no descriptors
      OutFile(MkHeader(<<D1>>, <<>>, 1, 0), <<>>),
      OutFile(MkHeader(<<>>, <<0>>, 0, 1), B1),
      \* a blob that is RLE data, one that only starts like it
      OutFile(MkHeader(<<Desc(1, 0, 4, 1), D2>>, <<0, Len(RleBlob)>>, 2, 2), RleBlob \o B2),
      OutFile(MkHeader(<<Desc(1, 0, 4, 1), D2>>, <<0, 4>>, 2, 2), <<8, 33, 0, 0>> \o B2),
      \* a dataCount of 40 and 39 descriptors that own neither blob
      OutFile(MkHeader([k \in 1..39 |-> Desc(1, 5, 1, 1)], <<0, 2>>, 40, 2), B1 \o B2) }


\* Byte p of a type A header: 32 descriptors of 6 bytes, the offsets at 200.
HeaderByteA(h, p) ==
    IF p < 5 THEN HeaderByte(h, p)
    ELSE IF p < 197 THEN
        LET fd == h.faceData[(p - 5) \div 6]
        IN  <<fd.type, fd.x, fd.y, fd.w, fd.h, fd.idx>>[((p - 5) % 6) + 1]
    ELSE IF p < 200 THEN 0
    ELSE HeaderByte(h, p + 200)

FileA(h, data) ==
    BinFile(MinHeaderSize + Len(data),
            [p \in 0..(MinHeaderSize + Len(data) - 1) |->
                IF p < MinHeaderSize THEN HeaderByteA(h, p)
                ELSE data[p - MinHeaderSize + 1]])

DescA(type, idx, w, h) == [type |-> type, idx |-> idx, x |-> 1, y |-> 2, w |-> w, h |-> h]

\* Type A files: a plain blob and an RLE_BASIC blob of one record; the same
\* with a background of type 0; an RLE_BASIC blob that ends too early.
TypeAFiles ==
    { FileA(MkHeader(<<DescA(1, 0, 2, 1), DescA(69, 1, 2, 1)>>, <<0, 4>>, 2, 2),
            B2 \o <<8, 33, 248, 31, 2>>),
      FileA(MkHeader(<<DescA(0, 0, 2, 1)>>, <<0, 4>>, 1, 2),
            B2 \o <<8, 33, 248, 31, 2>>),
      FileA(MkHeader(<<DescA(1, 0, 2, 1), DescA(69, 1, 2, 2)>>, <<0, 4>>, 2, 2),
            B2 \o <<8, 33, 248, 31, 3>>),
      \* an animation of two frames, counted in sizes[200]
      FileA([MkHeader(<<DescA(247, 0, 2, 1)>>, <<0, 4>>, 1, 2) EXCEPT !.sizes[200] = 2],
            B2 \o B2) }

\* Files cut below the header sizes.
ShortFiles ==
    { BinFile(n, Plain(1, 1, 1, 0).data) :
        n \in {MinHeaderSize - 1, MinHeaderSize, FaceHeaderSize - 1} }

FileTypes == {"", "A", "B", "C"}

AllArgs ==
    { [mode |-> "HELP", raw |-> FALSE, fileType |-> ""] }
    \cup { [mode |-> "INFO", raw |-> FALSE, fileType |-> ft] : ft \in {"", "C"} }
    \cup { [mode |-> "DUMP", raw |-> FALSE, fileType |-> ft] : ft \in FileTypes }
    \cup { [mode |-> "DUMP", raw |-> TRUE, fileType |-> "C"] }

PlainArgs == { a \in AllArgs : a.mode = "DUMP" /\ a.fileType \in {"", "C"} }

\* Folders written by hand for create: a bitmap of one pixel and a
\* watchface.txt that is complete, or lacks its fileType line, names another
\* type, has no faceData line or one with too few words, or has no
\* blobCount line or a blobCount of 0 or of 256.
HandBmp == BmpFile(setBMPHeaderV4(1, 1, 16), <<0, 4, 0, 0>>)
HandLines(ft, fds, counts) ==
    (IF ft = "" THEN <<>> ELSE <<LineFileType(ft)>>)
    \o <<LineFileID(129), LineDataCount(1)>>
    \o [k \in 1..Len(counts) |-> LineBlobCount(counts[k])]
    \o <<LineFaceNumber(1001)>> \o fds
    \o <<LineBlobCompression(0, NONE, 0, 2)>>
HandManifests ==
    { HandLines(ft, <<LineFaceData(D1)>>, <<1>>) : ft \in {"", "A", "B", "C"} }
    \cup { HandLines("C", fds, <<1>>) :
              fds \in { <<>>, <<SubSeq(LineFaceData(D1), 1, Len(LineFaceData(D1)) - 2)>>,
                        <<LineFaceData(D1), LineFaceData(D2)>> } }
    \cup { HandLines("C", <<LineFaceData(D1)>>, counts) :
              counts \in { <<>>, <<0>>, <<256>>, <<0, 1>>, <<1, 0>> } }
\* A folder of two bitmaps of 4 x 1 pixels of one colour and a watchface.txt
\* without blobCompression lines.
RunBmp == BmpFile(setBMPHeaderV4(4, 1, 16), Run(<<248, 31>>, 4))
NoModeLines ==
    <<LineFileType("C"), LineFileID(129), LineDataCount(2), LineBlobCount(2),
      LineFaceNumber(1002), LineFaceData(Desc(1, 0, 4, 1)), LineFaceData(Desc(69, 1, 4, 1))>>
HandFolders ==
    { [txt |-> m, bmp |-> 0 :> HandBmp, raw |-> <<>>] : m \in HandManifests }
    \cup { [txt |-> NoModeLines, bmp |-> (0 :> RunBmp) @@ (1 :> RunBmp), raw |-> <<>>] }

----------------------------------------------------------------------------
(* SpecTool: info or dump on one file, then create on the folder           *)

InitTool ==
    /\ IdlePix /\ IdleRLE /\ IdleImport /\ IdleDetect
    /\ \/ inFile \in PlainFiles /\ args \in PlainArgs /\ folder = NoFolder
       \/ /\ inFile \in OddFiles \cup TypeAFiles \cup ShortFiles \cup {NoBin}
          /\ args \in AllArgs /\ folder = NoFolder
       \/ /\ inFile = NoBin /\ folder \in HandFolders
          /\ args = [mode |-> "CREATE", raw |-> FALSE, fileType |-> ""]
    /\ pc = "open"
    /\ fileType = ""
    /\ maxRead = -1
    /\ hdr = NoHeader
    /\ manifest = <<>>
    /\ blobIdx = 0
    /\ visited = <<>>
    /\ probe = NoProbe
    /\ exitCode = 0
    /\ created = NotCreated

NextTool ==
    Open \/ Identify \/ Parse \/ StartDump \/ DumpBlobStep \/ Finish \/ Create \/ CreateMode

SpecTool == InitTool /\ [][NextTool]_vars


----------------------------------------------------------------------------
(* Claims on main and createBin, checked under SpecTool                     *)

\* C4: in info and dump modes no header byte is read at an index at or
\* after the file size (maxRead is the last index read, -1 for none); a
\* file shorter than 1700 bytes ends the run with exit code 1 with no byte
\* read, no type chosen and no header parsed; a file shorter than the
\* header size of its type ends the run with exit code 1 with no header
\* parsed.
C4_SizeChecksFirst ==
    (args.mode # "HELP" /\ inFile.readable) =>
        /\ maxRead < inFile.size
        /\ (inFile.size < MinHeaderSize /\ pc # "open") =>
              /\ pc = "exit" /\ exitCode = 1
              /\ maxRead = -1 /\ fileType = "" /\ hdr = NoHeader
        /\ (fileType # "" /\ inFile.size < HeaderSizeOf(fileType)) =>
              pc = "exit" /\ exitCode = 1 /\ hdr = NoHeader

\* C4 witness: a dump of a 1699-byte file has ended with exit code 1 and
\* nothing read.
C4_Witness ==
    /\ args.mode = "DUMP" /\ inFile.readable /\ inFile.size = MinHeaderSize - 1
    /\ pc = "exit" /\ exitCode = 1 /\ maxRead = -1

\* The passes of the dump loop made so far took the blobs 0, 1, 2, ... in turn.
InOrder(v) == \A k \in 1..Len(v) : v[k].idx = k - 1

\* C9: in a dump of a type A or type C file, whatever dumpBMP16 and
\* dumpBlob return, the loop goes on with the next blob: while it runs the
\* blobs visited are 0 .. blobIdx-1 in order, and when the run has ended
\* after the loop was entered every blob 0 .. blobCount-1 has been visited
\* in order and the exit code is 0.
C9_BatchGoesOn ==
    /\ pc = "blob" => (Len(visited) = blobIdx /\ InOrder(visited))
    /\ (pc = "exit" /\ args.mode = "DUMP" /\ folder.txt # <<>>) =>
          /\ fileType \in {"A", "C"}
          /\ Len(visited) = hdr.blobCount /\ InOrder(visited)
          /\ exitCode = 0

\* C9 witness: a dump of two blobs has ended with exit code 0; the bitmap
\* of the first blob failed and the second one was written.
C9_Witness ==
    /\ pc = "exit" /\ exitCode = 0 /\ folder.txt # <<>>
    /\ Len(visited) = 2 /\ visited[1].bmp # 0 /\ visited[2].bmp = 0
    /\ 1 \in DOMAIN folder.bmp /\ 0 \notin DOMAIN folder.bmp

\* offsets[i] of the container createBin wrote.
CreatedOffset(i) == get_u32(Bytes4(created.file, 400 + 4 * i))

\* C10 as stated: when createBin has given up a blob (neither NNNN.bmp nor
\* NNNN.raw loads) it returns non-zero and the output file is removed.
C10_MissingSourceFatal ==
    (created.called /\ created.skipped # {}) =>
        (created.ret # 0 /\ created.out = "removed")

\* C10: when createBin has given up a blob it goes on: it returns non-zero,
\* with the output removed, only for a compressImg or fwrite failure on
\* another blob or the header; otherwise it returns 0 and the container is
\* kept, with no bytes for the blob and its offset equal to the offset of
\* what follows it.  Whenever createBin returns non-zero no output is left.
C10_MissingSourceSkipped ==
    created.called =>
        /\ created.ret # 0 => (created.out \in {"none", "removed"} /\ created.file = NoBin)
        /\ created.skipped # {} =>
              /\ created.why \in {"", "compressImg", "fwrite"}
              /\ created.why = "" =>
                    /\ created.ret = 0 /\ created.out = "complete"
                    /\ \A i \in created.skipped :
                          CreatedOffset(i) =
                             IF i + 1 < Byte(created.file, 2) THEN CreatedOffset(i + 1)
                             ELSE created.file.size - FaceHeaderSize

\* C10 witness: createBin gave up blob 0, wrote blob 1 and returned 0.
C10_Witness ==
    /\ created.called /\ created.skipped = {0}
    /\ created.ret = 0 /\ created.out = "complete"
    /\ Byte(created.file, 2) = 2 /\ created.file.size > FaceHeaderSize


\* The descriptor that owns blob i, the length of the image it describes
\* and where the blob lies in the file.
OwnerOf(h, i) == getFaceDataIndexFromOffsetIndex(i, h, 0)
ImageLen(h, i) == FaceDataIn(h, OwnerOf(h, i), 0).w * FaceDataIn(h, OwnerOf(h, i), 0).h * 2
BlobStart(h, i) == FaceHeaderSize + h.offsets[i]

\* The file dumped is a type C container read as type C, with zero padding
\* and a zero size table, whose blobs each have an owner and lie, with the
\* length of the owner's image, inside the file.
Kind3Images ==
    /\ hdr.parsed /\ fileType = "C"
    /\ \A k \in 0..4 : hdr.padding[k] = 0
    /\ \A k \in 0..249 : hdr.sizes[k] = 0
    /\ \A i \in 0..(hdr.blobCount - 1) :
          /\ OwnerOf(hdr, i) # -1
          /\ hdr.offsets[i] >= 0
          /\ BlobStart(hdr, i) + ImageLen(hdr, i) <= inFile.size

\* No file operation of the dump or of the create failed.
NoFileFault ==
    /\ folder.txt # <<>>
    /\ Faults(visited) = 0
    /\ created.why \notin {"fopen", "fwrite"}

\* Pixel (x, y) of a 16 bpp bitmap, and of blob i read as rows of
\* big-endian RGB565.
BmpPixel(b, x, y) ==
    b.body[y * RowSize16(b.h.width) + 2 * x + 1]
        + 256 * b.body[y * RowSize16(b.h.width) + 2 * x + 2]
BlobPixel(i, x, y) ==
    LET at == BlobStart(hdr, i) + 2 * (y * FaceDataIn(hdr, OwnerOf(hdr, i), 0).w + x)
    IN  256 * Byte(inFile, at) + Byte(inFile, at + 1)

\* The dump left for every blob a top-down 16 bpp bitmap of the owner's
\* width and height with the pixels of the blob.
DumpedPixelsEqual ==
    \A i \in 0..(hdr.blobCount - 1) :
        /\ i \in DOMAIN folder.bmp
        /\ LET b == folder.bmp[i]
               fd == FaceDataIn(hdr, OwnerOf(hdr, i), 0)
           IN  /\ b.h.width = fd.w /\ b.h.height = -fd.h /\ b.h.bpp = 16
               /\ Len(b.body) = RowSize16(fd.w) * fd.h
               /\ \A y \in 0..(fd.h - 1), x \in 0..(fd.w - 1) :
                     BmpPixel(b, x, y) = BlobPixel(i, x, y)

\* createBin wrote a container with the header fields and the blob bytes of
\* the file dumped.
Recreated ==
    /\ created.ret = 0 /\ created.out = "complete"
    /\ \E c \in {setHeader(created.file, "C")} :
          /\ c.fileID = hdr.fileID /\ c.dataCount = hdr.dataCount
          /\ c.blobCount = hdr.blobCount /\ c.faceNumber = hdr.faceNumber
          /\ c.faceData = hdr.faceData /\ c.offsets = hdr.offsets
          /\ \A i \in 0..(hdr.blobCount - 1) :
                /\ BlobStart(c, i) + ImageLen(hdr, i) <= created.file.size
                /\ \A k \in 0..(ImageLen(hdr, i) - 1) :
                      Byte(created.file, BlobStart(c, i) + k)
                         = Byte(inFile, BlobStart(hdr, i) + k)

\* C2 as stated: after a dump of such a container and a create on the
\* folder, with no file operation failing, every blob was dumped as a
\* bitmap of its pixels and the container created has the header fields and
\* the blob bytes of the original.
C2_RoundTripAsStated ==
    (created.called /\ args.mode = "DUMP" /\ Kind3Images /\ NoFileFault) =>
        (pc = "exit" /\ exitCode = 0 /\ DumpedPixelsEqual /\ Recreated)

\* What the round trip needs besides: no blob starts with the RLE
\* identifier; dataCount counts the descriptors, which are the first
\* dataCount ones, none of them but the first of type 0; the offset table
\* holds blobCount offsets and the blobs follow one another from offset 0 in
\* the order of their indices; every image is 1 .. 4096 pixels wide, so that
\* a row fits buf, and at least 1 pixel high.
Canonical ==
    /\ hdr.blobCount >= 1 /\ hdr.blobCount <= 250
    /\ hdr.dataCount >= 1 /\ hdr.dataCount <= 39
    /\ \A k \in 0..38 :
          /\ k >= hdr.dataCount => hdr.faceData[k] = ZeroFaceData
          /\ (k > 0 /\ k < hdr.dataCount) => hdr.faceData[k].type # 0
    /\ hdr.offsets[0] = 0
    /\ \A k \in 0..249 : k >= hdr.blobCount => hdr.offsets[k] = 0
    /\ \A i \in 0..(hdr.blobCount - 1) :
          /\ Bytes2(inFile, BlobStart(hdr, i)) # <<8, 33>>
          /\ FaceDataIn(hdr, OwnerOf(hdr, i), 0).w >= 1
          /\ RowSize16(FaceDataIn(hdr, OwnerOf(hdr, i), 0).w) <= BufSize
          /\ FaceDataIn(hdr, OwnerOf(hdr, i), 0).h >= 1
          /\ i + 1 < hdr.blobCount => hdr.offsets[i + 1] = hdr.offsets[i] + ImageLen(hdr, i)

\* C2: the round trip of C2_RoundTripAsStated holds for the containers that
\* are Canonical as well.
C2_RoundTrip ==
    (created.called /\ args.mode = "DUMP" /\ Kind3Images /\ Canonical /\ NoFileFault) =>
        (pc = "exit" /\ exitCode = 0 /\ DumpedPixelsEqual /\ Recreated)

\* C2 witness: a container of two blobs, the second of more than one pixel,
\* was dumped and created again, byte for byte.
C2_Witness ==
    /\ created.called /\ args.mode = "DUMP" /\ Kind3Images /\ Canonical /\ NoFileFault
    /\ hdr.blobCount = 2 /\ ImageLen(hdr, 1) > 2
    /\ DumpedPixelsEqual /\ Recreated
    /\ created.file = inFile

\* An offset table entry that is populated and not below the file size.
BadOffset(h, size) ==
    \E i \in 0..249 : Populated250(h, i) /\ U32Ge(h.offsets[i], size)

Delta(i) ==
    IF i < 249 /\ hdr.offsets[i + 1] # 0
    THEN hdr.offsets[i + 1] - hdr.offsets[i]
    ELSE inFile.size - HeaderSizeOf(fileType) - hdr.offsets[i]

\* The length main settles on, and whether a raw file of blob i is asked for.
RawLen(i) ==
    IF i # 0 /\ hdr.offsets[i] = 0 THEN 0
    ELSE IF Delta(i) >= 0 THEN Delta(i) ELSE hdr.sizes[i]
RawWanted(i) == args.raw \/ (OwnerOf(hdr, i) = -1 /\ i # hdr.blobCount - 1)
RawFits(i) ==
    LET at == U32Add(hdr.offsets[i], HeaderSizeOf(fileType))
    IN  at >= 0 /\ at + RawLen(i) <= inFile.size

\* The length of the owner's image, 0 for a blob without owner.
DescLen(i) == IF OwnerOf(hdr, i) = -1 THEN 0 ELSE ImageLen(hdr, i)

\* C12 as stated: the raw file of blob i has the length sizes[i] when that is
\* not zero, otherwise the distance to the next offset (or to the end of the
\* file), otherwise w * h * 2 of the owning descriptor.
C12_SizesFirst ==
    args.mode = "DUMP" =>
    \A i \in DOMAIN folder.raw :
        Len(folder.raw[i]) =
            IF hdr.sizes[i] # 0 THEN hdr.sizes[i]
            ELSE IF Delta(i) > 0 THEN Delta(i)
            ELSE DescLen(i)

\* C12: the raw file of blob i holds the RawLen(i) bytes of the file from
\* the blob's offset on: the distance to entry i + 1 of the offset table (the
\* rest of the file when that entry is zero) whenever it is not negative,
\* and sizes[i] only when it is negative; for a blob other than blob 0
\* whose offset is 0 the length is 0.  A raw file is written for every
\* blob visited for which one is asked, whose length is not 0 and ends
\* inside the file, unless its fopen or fwrite fails.
C12_EstimateFirst ==
    args.mode = "DUMP" =>
    /\ \A i \in DOMAIN folder.raw :
          /\ Len(folder.raw[i]) = RawLen(i)
          /\ RawLen(i) > 0 /\ RawWanted(i) /\ RawFits(i)
          /\ \A k \in 1..RawLen(i) :
                folder.raw[i][k]
                   = Byte(inFile, U32Add(hdr.offsets[i], HeaderSizeOf(fileType)) + k - 1)
    /\ \A k \in 1..Len(visited) :
          LET i == visited[k].idx
          IN  (RawWanted(i) /\ RawLen(i) > 0 /\ RawFits(i) /\ visited[k].raw = 0)
                  => i \in DOMAIN folder.raw

\* C12 witness: a dump with raw=true has ended; the blobs of 2 and 4 bytes,
\* whose sizes entries are 4 and 2, were written with 2 and 4 bytes.
C12_Witness ==
    /\ pc = "exit" /\ exitCode = 0 /\ args.raw
    /\ hdr.sizes[0] = 4 /\ hdr.sizes[1] = 2
    /\ DOMAIN folder.raw = {0, 1}
    /\ Len(folder.raw[0]) = 2 /\ Len(folder.raw[1]) = 4

\* The lines of a watchface.txt that start with the word key and have at
\* least n words.
KeyLines(txt, key, n) ==
    { k \in 1..Len(txt) :
        /\ txt[k] # <<>> /\ txt[k][1] # "#"
        /\ Len(getTokensIdx(txt[k])) >= n
        /\ getTokensIdx(txt[k])[1][1] = key }
LastOf(S) == CHOOSE k \in S : \A j \in S : j <= k

\* What a watchface.txt declares: the type of its last fileType line, the
\* number of its faceData lines, the count of its last blobCount line as a u8.
DeclaredType(txt) ==
    IF KeyLines(txt, "fileType", 2) = {} THEN ""
    ELSE getTokensIdx(txt[LastOf(KeyLines(txt, "fileType", 2))])[2][1]
DeclaredData(txt) == Cardinality(KeyLines(txt, "faceData", 8))
DeclaredBlobs(txt) ==
    IF KeyLines(txt, "blobCount", 2) = {} THEN 0
    ELSE readNum(getTokensIdx(txt[LastOf(KeyLines(txt, "blobCount", 2))])[2]) % 256

\* The manifest createBin turns down before it opens the output file.
Unusable(txt) ==
    DeclaredType(txt) # "C" \/ DeclaredData(txt) < 1 \/ DeclaredBlobs(txt) < 1

\* C13: a create on a folder whose watchface.txt does not declare fileType
\* C, or has no faceData line, or declares a blobCount below 1, returns
\* non-zero with the output file never opened: none is created, none is
\* left; main returns what createBin returned.
C13_RejectedBeforeOpen ==
    (created.called /\ folder.txt # <<>> /\ Unusable(folder.txt)) =>
        /\ created.ret # 0
        /\ created.out = "none" /\ created.file = NoBin
        /\ created.why \in {"fileType", "dataCount", "blobCount"}
        /\ args.mode = "CREATE" => (pc = "exit" /\ exitCode = created.ret)

\* C13 witness: a create on a folder written by hand whose watchface.txt
\* declares fileType C and blobCount 1 but has no faceData line has returned
\* non-zero without an output file.
C13_Witness ==
    /\ created.called /\ args.mode = "CREATE"
    /\ DeclaredType(folder.txt) = "C" /\ DeclaredBlobs(folder.txt) = 1
    /\ DeclaredData(folder.txt) = 0
    /\ created.ret = 1 /\ created.out = "none" /\ created.why = "dataCount"
    /\ pc = "exit" /\ exitCode = 1

----------------------------------------------------------------------------
(* SpecDump: dumpBMP16 on source bytes of any content                      *)

MaxDumpW == 3     \* widths 1..MaxDumpW of the sources
MaxDumpH == 3     \* heights 1..MaxDumpH of the RLE_BASIC sources
MaxRecs  == 3     \* run records in an RLE_BASIC source
MaxTable == 2     \* rows of the RLE_LINE sources with free table entries

\* Source bytes as the tool hands them to dumpBMP16: the bytes of a blob
\* whose descriptor gives w and h; compression tells the basicRLE argument.
DumpSource(w, h, compression, data) ==
    [null |-> FALSE, w |-> w, h |-> h, compression |-> compression,
     size |-> Len(data), data |-> data]

Red   == <<248, 31>>
Green == <<7, 224>>

\* Record lists: nothing, single runs, a zero count, a full count.
RecLists ==
    { <<>>,
      Record(Red, 1),
      Record(Red, 2) \o Record(Green, 1),
      Record(Red, 0) \o Record(Green, 3),
      Record(Red, MaxRun),
      Record(Red, 1) \o Record(Green, 1) \o Record(Red, 1) }

FarRecs == 8      \* records a table entry may lie past the end of the data

\* Values for a table entry of a source whose records start at base and
\* take len bytes: before, at and after the end of the data.
Ends(base, len) ==
    { 0, base - 1, base, base + 3, base + len, base + len + 1, base + len + 2,
      base + len + 3, base + len + 3 * FarRecs }

LineSource(w, table, recs) ==
    DumpSource(w, Len(table), RLE_LINE,
           <<8, 33>> \o Flatten([y \in 1..Len(table) |-> set_u16(table[y])]) \o recs)

RECURSIVE Tables(_, _, _)
Tables(h, base, len) ==
    IF h = 0 THEN { <<>> }
    ELSE { Append(t, e) : t \in Tables(h - 1, base, len), e \in Ends(base, len) }

LineSources ==
    UNION { { LineSource(w, t, recs) : t \in Tables(h, 2 + 2 * h, Len(recs)) } :
                w \in 1..MaxDumpW, h \in 1..MaxTable, recs \in RecLists }

\* Sources that end inside the identifier or the table.
CutSources ==
    { DumpSource(1, h, RLE_LINE, d) :
        h \in 0..MaxTable,
        d \in { <<8>>, <<8, 33>>, <<8, 33, 7>>, <<8, 33, 7, 0>>, <<8, 33, 7, 0, 9>> } }

\* Table entries far past the data, in the last row and before it.
FarEntry == 1024
FarSources ==
    { LineSource(1, <<FarEntry>>, Record(Red, 1)),
      LineSource(1, <<FarEntry, 6>>, <<>>) }

\* One row of FullRuns records of 255 pixels: more pixels than buf holds.
FullRuns == 17
LongRow == Flatten([k \in 1..FullRuns |-> Record(IF k % 2 = 1 THEN Red ELSE Green, MaxRun)])
LongSources ==
    { LineSource(w, <<4 + Len(LongRow)>>, LongRow) : w \in {1, BufSize \div 2} }

\* The largest u16 width with the smallest height whose rowSize * height
\* does not fit a u32; every row is empty.
WideW == 2^16 - 1
TallH == 2^15
WideSource ==
    DumpSource(WideW, TallH, RLE_LINE,
           <<8, 33>> \o [k \in 1..(2 * TallH) |-> IF k = 2 * TallH - 1 THEN 1 ELSE 0])

Counts == {0, 1, 3, 7}

RECURSIVE RecSeqs(_)
RecSeqs(n) ==
    IF n = 0 THEN { <<>> }
    ELSE RecSeqs(n - 1) \cup
         { r \o Record(IF (Len(r) \div 3) % 2 = 0 THEN Red ELSE Green, c) :
             r \in { rr \in RecSeqs(n - 1) : Len(rr) = 3 * (n - 1) }, c \in Counts }

\* RLE_BASIC sources: the identifier, whole records and perhaps a cut one.
BasicSources ==
    { DumpSource(w, h, RLE_BASIC, <<8, 33>> \o r \o tail) :
        w \in 1..MaxDumpW, h \in 1..MaxDumpH, r \in RecSeqs(MaxRecs),
        tail \in { <<>>, <<248, 31>> } }

Sources ==
    LineSources \cup CutSources \cup FarSources \cup LongSources \cup {WideSource}
        \cup BasicSources

InitDump ==
    /\ IdlePix /\ IdleImport /\ IdleDetect /\ IdleTool
    /\ img \in Sources
    /\ orig = NullImg          \* no compressImg call here: no original to keep
    /\ ret = -1
    /\ calls = 0
    /\ rleBuf = <<>>
    /\ dump = NoDump

NextDump == DumpImg

SpecDump == InitDump /\ [][NextDump]_vars

\* dumpBMP16 took, or would take, the RLE_LINE branch on img.
LineMode ==
    /\ img.compression = RLE_LINE
    /\ img.size >= 2
    /\ IsRLE(img.data, 0)
    /\ img.h >= 1

\* C14: row-indexed decoding never stores outside buf, and every row it
\* writes has (2 * width + 3) & ~3 bytes, whatever the source holds.
C14_RowsFitBuffer ==
    (dump.called /\ LineMode) =>
        /\ dump.top < BufSize
        /\ \A y \in DOMAIN dump.rows : Len(dump.rows[y]) = RowSize16(img.w)

\* C15: row-indexed decoding reads no source byte at an index >= srcDataSize,
\* in the table or in the records, whatever the table entries are.
C15_ReadsInsideSource ==
    (dump.called /\ LineMode) => ~dump.ub

\* The last entry of the row end-offset table, when the source holds it.
LastEnd == get_u16(img.data, 2 + 2 * (img.h - 1))

\* The source is too short for identifier and table, or its last row ends
\* after the data.
TooShortForRows ==
    \/ img.size < 2 + 2 * img.h
    \/ LastEnd > img.size

\* C16: in row-indexed mode a source shorter than 2 + 2 * height bytes, or
\* whose last row end offset is above srcDataSize, gives 101 and no row (a
\* call that failed before, on the row size, fopen or the header, gives 3, 1
\* or 2 and no row either).
C16_ShortSourceFails ==
    (dump.called /\ LineMode /\ TooShortForRows) =>
        /\ dump.rows = <<>>
        /\ dump.ret \in {101, 3, 1, 2}

\* dumpBMP16 took the RLE_BASIC branch on img.
BasicMode ==
    /\ img.compression = RLE_BASIC
    /\ img.size >= 2
    /\ IsRLE(img.data, 0)
    /\ img.h >= 1

\* Pixel k of the flat expansion of the whole 3-byte records from byte at on,
\* as the two bytes a bitmap row holds; <<>> when the records end before it.
RECURSIVE FlatPixel(_, _, _)
FlatPixel(data, at, k) ==
    IF at + 2 >= Len(data) THEN <<>>
    ELSE IF k < data[at + 3] THEN <<data[at + 2], data[at + 1]>>
    ELSE FlatPixel(data, at + 3, k - data[at + 3])

\* Pixel k of the rows written, counted row by row.
OutPixel(k) ==
    LET row == dump.rows[(k \div img.w) + 1]
        x   == k % img.w
    IN  <<row[2 * x + 1], row[2 * x + 2]>>

\* C20: in streaming mode every pixel k of the rows written is pixel k of
\* the flat expansion of the records from source byte 2 on, whatever the row
\* it falls in; a call that returns 0 has written all height rows, and the
\* call returns 102 only when the records hold fewer than width * height
\* pixels.
C20_StreamIsFlatExpansion ==
    (dump.called /\ BasicMode) =>
        /\ \A k \in 0..(Len(dump.rows) * img.w - 1) :
              OutPixel(k) = FlatPixel(img.data, 2, k)
        /\ \A y \in DOMAIN dump.rows :
              /\ Len(dump.rows[y]) = RowSize16(img.w)
              /\ \A j \in (2 * img.w + 1)..RowSize16(img.w) : dump.rows[y][j] = 0
        /\ dump.ret = 0 =>
              /\ Len(dump.rows) = img.h
              /\ FlatPixel(img.data, 2, img.w * img.h - 1) # <<>>
        /\ dump.ret = 102 => FlatPixel(img.data, 2, img.w * img.h - 1) = <<>>

\* A run of 3 pixels ends in the second row of a 2 x 3 image and a second run
\* of 3 fills the rest.
C20_Witness ==
    /\ dump.called /\ BasicMode
    /\ dump.ret = 0
    /\ img.w = 2 /\ img.h = 3
    /\ img.data[5] = 3 /\ img.data[8] = 3
    /\ dump.rows = << <<31, 248, 31, 248>>, <<31, 248, 224, 7>>, <<224, 7, 224, 7>> >>

----------------------------------------------------------------------------
(* More claims on compressImg, checked under SpecRLE                       *)

\* The counts of the run records of an RLE_LINE image, in order.
RunCounts(i) ==
    [j \in 1..((i.size - 2 - 2 * i.h) \div 3) |-> i.data[2 + 2 * i.h + 3 * j]]

\* C17: every run record compressImg writes for an uncompressed image has a
\* count of 1..255; no record of length 0.
C17_NoEmptyRecord ==
    (calls >= 1 /\ ~orig.null /\ orig.compression = NONE /\ ~img.null
                /\ img.compression = RLE_LINE) =>
        \A j \in DOMAIN RunCounts(img) : RunCounts(img)[j] \in 1..MaxRun

\* SpecBig: compressImg and dumpBMP16 on the pictures of SpecRLE and on the
\* two whose encoding does not fit 16-bit offsets.
InitBig ==
    /\ IdlePix /\ IdleImport /\ IdleDetect /\ IdleTool
    /\ img \in Pictures \cup BigPictures
    /\ orig = img
    /\ ret = -1
    /\ calls = 0
    /\ rleBuf = <<>>
    /\ dump = NoDump

SpecBig == InitBig /\ [][NextRLE]_vars

\* The RLE_LINE encoding of i needs a row end offset above 65535: every row
\* takes one record at least, or the encoder's running offset gets there.
NeedsBigOffset(i) ==
    \/ i.w >= 1 /\ 2 + 2 * i.h + 3 * i.h > MaxOffset
    \/ EncodeRows(i.data, i.w, i.h, 0, 2 + 2 * i.h, <<>>, <<>>).over

\* C18: compressImg on an uncompressed image whose encoding needs a row end
\* offset above 65535 returns 0 and leaves the image as it was.
C18_TooBigNotCompressed ==
    (calls = 1 /\ ~orig.null /\ orig.compression = NONE /\ NeedsBigOffset(orig)) =>
        /\ ret = 0
        /\ img = orig

\* C19: after compressImg returned 0 on an uncompressed w x h image, exactly
\* one holds: the image is as it was (NONE, w * h * 2 bytes, same data), or
\* it is RLE_LINE, starts with 08 21, is smaller than w * h * 2 and its size
\* is the last entry of its row end-offset table.
C19_UnchangedOrSmaller ==
    (calls >= 1 /\ ~orig.null /\ orig.compression = NONE /\ ret = 0) =>
        LET raw == orig.w * orig.h * 2
            unchanged == /\ img = orig
                         /\ img.compression = NONE
                         /\ img.size = raw
            packed    == /\ img.compression = RLE_LINE
                         /\ img.w = orig.w /\ img.h = orig.h
                         /\ Len(img.data) = img.size
                         /\ img.size >= 2 + 2 * img.h
                         /\ img.data[1] = 8 /\ img.data[2] = 33
                         /\ img.size < raw
                         /\ img.size = get_u16(img.data, 2 + 2 * (img.h - 1))
        IN  unchanged # packed

\* Four pixels of one colour became seven bytes.
C19_Witness ==
    /\ calls = 1 /\ ret = 0
    /\ orig.w = 4 /\ orig.h = 1 /\ orig.size = 8
    /\ img.compression = RLE_LINE
    /\ img.size = 7
    /\ img.data = <<8, 33, 7, 0, 248, 31, 4>>

----------------------------------------------------------------------------
(* More claims on newImgFromFile, checked under SpecImport                  *)

\* The height of the bitmap once normalised.
BmpHeight(f) == IF f.h.height < 0 THEN -f.h.height ELSE f.h.height

\* h->imageDataSize as line 477 sees it: declared, or recomputed from the
\* file size when the declared one gives rows shorter than 2 * width.
DataSize(f) ==
    IF (f.h.imageDataSize \div BmpHeight(f)) < f.h.width * 2
    THEN f.size - f.h.offset
    ELSE f.h.imageDataSize

\* The file gets as far as the test of its length against its data size.
Measured(f) ==
    /\ f.readable
    /\ f.size >= BASIC_BMP_HEADER_SIZE
    /\ ~HeaderFails(f.h)
    /\ BmpHeight(f) >= 1 /\ f.h.width >= 1
    /\ DataSize(f) \div BmpHeight(f) >= f.h.width * 2

\* Nothing after the length test rejects the file (the masks of the blend
\* path are left out: their test reads the stack).
MasksAccepted(f, bgi) ==
    IF f.h.bpp = 16 THEN f.size >= BmpHeaderClassicSize /\ f.h.masks = Masks565
    ELSE IF BlendPath(f.h, bgi) THEN f.h.compressionType = 0
    ELSE f.h.compressionType = 0 \/ f.h.masks = Masks888

\* C21: a bitmap file shorter than its data offset plus its declared or
\* recomputed image data size gives no image, so that no pixel is read past
\* the end of the file, and a file that holds that many bytes is not
\* rejected for its length.
C21_ShortFilesRejected ==
    (imported.called /\ Measured(bmpFile)) =>
        /\ bmpFile.size < bmpFile.h.offset + DataSize(bmpFile) => imported.img.null
        /\ backgroundImg.null => ~imported.ub
        /\ (/\ bmpFile.size >= bmpFile.h.offset + DataSize(bmpFile)
            /\ MasksAccepted(bmpFile, backgroundImg)) => ~imported.img.null

\* The file holds its rows and nothing else, and the background, if any,
\* lies under every pixel: the import reads no byte that does not exist.
Whole(f, bgi, bpx, bpy) ==
    /\ Measured(f)
    /\ Len(f.body) = DataSize(f)
    /\ f.size = f.h.offset + DataSize(f)
    /\ BlendPath(f.h, bgi) => (bpx + f.h.width <= bgi.w /\ bpy + BmpHeight(f) <= bgi.h)

\* The top-down bitmap of one row that holds row r of f.
RowFile(f, r) ==
    LET rowSize == DataSize(f) \div BmpHeight(f)
    IN  [f EXCEPT !.h.height = -1,
                  !.h.imageDataSize = rowSize,
                  !.body = SubSeq(f.body, r * rowSize + 1, r * rowSize + rowSize),
                  !.size = f.h.offset + rowSize]

\* The same picture stored the other way up.
Flipped(f) ==
    LET rowSize == DataSize(f) \div BmpHeight(f)
        H == BmpHeight(f)
    IN  [f EXCEPT !.h.height = -f.h.height,
                  !.body = [k \in 1..Len(f.body) |->
                              IF k > rowSize * H THEN f.body[k]
                              ELSE f.body[(H - 1 - ((k - 1) \div rowSize)) * rowSize
                                          + ((k - 1) % rowSize) + 1]]]

\* Row y of an Img.
ImgRow(i, y) == SubSeq(i.data, 2 * i.w * y + 1, 2 * i.w * (y + 1))

\* C22: an imported image is top-down whichever way the bitmap is stored:
\* its row y is file row y of a top-down bitmap (negative height) and file
\* row height - 1 - y of a bottom-up one, for 16, 24 and 32 bits per pixel,
\* so a bitmap and the same picture stored the other way up give the same
\* image.
C22_SameImageEitherWay ==
    (/\ imported.called /\ ~imported.img.null
     /\ Whole(bmpFile, backgroundImg, bp[1], bp[2])) =>
        /\ imported.img.h = BmpHeight(bmpFile)
        /\ \A y \in 0..(imported.img.h - 1) :
              LET r == IF bmpFile.h.height < 0 THEN y ELSE imported.img.h - 1 - y
              IN  ImgRow(imported.img, y)
                    = newImgFromFile(RowFile(bmpFile, r), backgroundImg,
                                     bp[1], bp[2] + y, 0, TRUE).img.data
        /\ imported.img
             = newImgFromFile(Flipped(bmpFile), backgroundImg, bp[1], bp[2], 0, TRUE).img

\* A bottom-up bitmap of two rows that differ, imported.
C22_Witness ==
    /\ imported.called /\ ~imported.img.null
    /\ Whole(bmpFile, backgroundImg, bp[1], bp[2])
    /\ bmpFile.h.height = 2
    /\ bmpFile.h.bpp = 24
    /\ ImgRow(imported.img, 0) # ImgRow(imported.img, 1)
    /\ Flipped(bmpFile) # bmpFile

\* The file gets as far as the tests of its masks in the 24/32 bpp paths.
MasksTested(f) ==
    /\ Measured(f)
    /\ ~(f.h.offset + DataSize(f) < f.size)
    /\ f.h.bpp \in {24, 32}
    /\ f.h.compressionType = 3

\* C23: a 24 or 32 bpp bitmap that declares bit fields is accepted exactly
\* when its masks are red 0x00FF0000, green 0x0000FF00, blue 0x000000FF, the
\* layout the pixel bytes are read in, with a background and without.
C23_MasksDecide ==
    (imported.called /\ MasksTested(bmpFile)) =>
        (~imported.img.null <=> bmpFile.h.masks = Masks888)


----------------------------------------------------------------------------
(* More claims on the dump loop, checked under SpecTool                    *)

\* The frame count and the count of blobs of descriptor d as the manifest of
\* the format gives them.
FramesOf(h, ft) == IF ft = "A" THEN h.sizes[200] ELSE h.sizes[0]
CountOf(h, ft, d) ==
    LET type == h.faceData[d].type
    IN  IF type \in 246..248 THEN FramesOf(h, ft)
        ELSE IF \E k \in 1..Len(dataTypes) : dataTypes[k][1] = type
             THEN dataTypes[CHOOSE k \in 1..Len(dataTypes) : dataTypes[k][1] = type][3]
             ELSE 1
OwnersOf(h, ft, i) ==
    { d \in 0..38 : /\ d < h.dataCount
                    /\ h.faceData[d].idx <= i
                    /\ i < h.faceData[d].idx + CountOf(h, ft, d) }
FirstOwner(h, ft, i) ==
    IF OwnersOf(h, ft, i) = {} THEN -1
    ELSE CHOOSE d \in OwnersOf(h, ft, i) : \A e \in OwnersOf(h, ft, i) : d <= e

\* C24: the descriptor the dump loop finds for blob i is the first one below
\* dataCount whose range idx .. idx + count - 1 holds i, where count is the
\* frame count (sizes[200] for type A, sizes[0] otherwise) for the types
\* 0xF6 to 0xF8, the count of the table for the other types it lists and 1
\* for a type it does not list; it is -1 when there is no such descriptor.
\* This is for a search that stays inside the 39 descriptors of the header.
C24_FirstOwner ==
    (probe.called /\ probe.looked < 39)
        => probe.fdi = FirstOwner(hdr, fileType, probe.idx)

\* C24 witness: the second frame of an animation of a type A file, found to
\* belong to the animation through sizes[200].
C24_Witness ==
    /\ probe.called /\ probe.idx = 1 /\ probe.fdi = 0 /\ probe.looked < 39
    /\ fileType = "A" /\ hdr.faceData[0].type = 247 /\ hdr.sizes[200] = 2

\* C27: the search for the owner of a blob looks at no descriptor past the
\* 39 of the header, whatever dataCount is.
C27_DescriptorsInsideTable ==
    probe.called => probe.looked < 39


----------------------------------------------------------------------------
(* More claims on dumpBMP16, checked under SpecDump                        *)

\* C25: whenever dumpBMP16 returns a value other than 0 it leaves no bitmap
\* file: it returned before the file was made, or it closed and removed it.
C25_NoPartialFile ==
    (dump.called /\ dump.ret > 0) => dump.file \in {"none", "removed"}


\* C26: in a dump every read of the bytes of a blob, the two bytes of the
\* RLE test first, is inside the file: headerSize + offsets[i] and the byte
\* after it are below fileSize, whatever the offset table holds.
C26_BlobReadsInsideFile ==
    probe.called => (probe.at >= 0 /\ probe.at + 1 < probe.size)

\* C28: dumpBMP16 is never called with a width or a height of 0.
C28_NoZeroSize ==
    (probe.called /\ probe.bmp) => (probe.w >= 1 /\ probe.h >= 1)


----------------------------------------------------------------------------
(* More claims on createBin, checked under SpecTool                        *)

\* Whether a line of watchface.txt is a blobCompression line for blob i.
NamesBlob(line, i) ==
    /\ line # <<>>
    /\ line[1] # "#"
    /\ Len(getTokensIdx(line)) >= 3
    /\ getTokensIdx(line)[1][1] = "blobCompression"
    /\ U8(readNum(getTokensIdx(line)[2])) = i

\* C29: every blob of a create that has no blobCompression line in
\* watchface.txt gets the same default mode, TRY_RLE, whatever its index.
C29_SameDefault ==
    created.called =>
        \E st \in {Parsed(ParseLines(folder.txt, 1, CreateStart))} :
            \A i \in 0..249 :
                (/\ i < st.h.blobCount
                 /\ \A k \in 1..Len(folder.txt) : ~NamesBlob(folder.txt[k], i))
                    => st.blobCompression[i] = TRY_RLE


----------------------------------------------------------------------------
(* More claims on the pixel conversions, checked under SpecPix             *)

\* C30: for every 16-bit pixel p, RGBTripTo565(RGB565to888(p)) is p with its
\* two bytes exchanged: the truncation undoes the expansion.
C30_TruncateUndoesExpand ==
    pix565 # -1 => pix565 = (pixel % 256) * 256 + pixel \div 256

\* C30 witness: the stored pixel 0x1FF8 (red and blue fields 31, green 0) was
\* expanded to (0xFF, 0x00, 0xFB) and truncated to 0xF81F.
C30_Witness ==
    /\ pixel = 8184
    /\ rgb = [r |-> 255, g |-> 0, b |-> 251]
    /\ pix565 = 63519

============================================================================
